---------------------------- MODULE Spec2Model ----------------------------
(***************************************************************************)
(* State-machine model of the FoodieBot front end.                         *)
(*                                                                         *)
(*   SpecChat : the ChatInterface component (transcript, send, end-chat,   *)
(*              transcript load, debounced save to the database)           *)
(*   SpecCard : one RestaurantCard (like/dislike, feedback prompt)         *)
(*   SpecApp  : the App root and the UserAuthentication form; its          *)
(*              slices SpecGate (startup, the form and one flow of its     *)
(*              handlers), SpecRoundTrip (register, log out, log in) and   *)
(*              SpecHeader (header, history, location update)              *)
(*                                                                         *)
(* One event-loop turn of the program (an event handler up to its first    *)
(* await, or the continuation that runs when an awaited call settles, or   *)
(* a timer callback) is one action.  A request to an external service is   *)
(* processed by that service when it is issued; what stays in flight is    *)
(* its response, which is delivered at any later moment and in any order.  *)
(***************************************************************************)
EXTENDS Integers, Sequences, FiniteSets, TLC

\* ------------------------------------------------------------------ bounds
MaxSends == 2          \* accepted sendMessage calls in one behaviour
MaxEnds == 2           \* endChat calls in one behaviour
MaxSaves == 2          \* debounce timers that fire in one behaviour
MaxShadowSends == 1    \* sendMessage calls accepted in one behaviour that follows the database
MaxCardEvents == 3     \* submissions, skips and alerts of a card in one behaviour
MaxAttempts == 2       \* login and registration flows started in one behaviour
MaxGateAttempts == 1   \* flows started in one behaviour that starts with the page load
MaxLogouts == 1        \* handleLogout calls in one behaviour
MaxNewChats == 1       \* handleNewChat calls in one behaviour
MaxLocationUpdates == 1 \* calls of App's location handlers that await a lookup in one behaviour
MaxViews == 1          \* session requests of ChatHistory in one behaviour

None == "none"
\* null, for a variable that otherwise holds a record
Nil == [nil |-> TRUE]

\* ------------------------------------------------------------------- texts
\* A text is a sequence of characters.  The inputs cover the empty text, a
\* whitespace-only text and a text that trimming changes.
InputTexts == { <<>>, <<" ">>, <<" ", "a">> }

RECURSIVE TrimStart(_)
TrimStart(s) == IF s = <<>> THEN s
                ELSE IF Head(s) = " " THEN TrimStart(Tail(s)) ELSE s

RECURSIVE TrimEnd(_)
TrimEnd(s) == IF s = <<>> THEN s
              ELSE IF s[Len(s)] = " " THEN TrimEnd(SubSeq(s, 1, Len(s) - 1)) ELSE s

\* String.prototype.trim
Trim(s) == TrimEnd(TrimStart(s))

IsPrefix(s, t) == Len(s) <= Len(t) /\ SubSeq(t, 1, Len(s)) = s

\* --------------------------------------------------------------- variables
VARIABLES
    \* ChatInterface state (useState)
    messages, inputMessage, isLoading, isTyping, isChatEnded,
    \* ChatInterface: pending asynchronous work
    chatReq,        \* response of the /api/chat POST sendMessage awaits, or Nil
    botTimers,      \* queue of pending typing-delay timers (their bot message)
    loads,          \* responses of /api/chat-session GETs still in flight
    ends,           \* endChat invocations that have not finished
    saveTimer,      \* the pending debounce timer (its closure), or Nil
    saves,          \* updateChatSession calls of saveChatToFirebase in flight
    \* counters and history
    sendCalls, endCalls, saveCalls, lastSend, fallbackCalls, unhandled,
    \* chat backend (session of this ChatInterface)
    srvMessages, srvActive,
    \* database: the chatSessions document keyed by the session id, and the
    \* documents added under generated ids
    dbDoc, newDocs,
    \* RestaurantCard state (useState) and its userData prop
    userPreference, showFeedbackModal, feedbackText, pendingPreference,
    isSubmittingFeedback, cardUid,
    cardReq,        \* the submission handleFeedbackSubmit is awaiting, or Nil
    submitCalls, skipCalls, alerts,
    \* what the card's submissions have stored: the chat backend's preferences,
    \* the userFeedback collection, the localStorage log
    prefPosts, feedbackDocs, localFeedback,
    \* App state (useState)
    appState, userData, userProfile, sessionId, selectedSession,
    appShowLocationModal, isUpdatingLocation,
    mainView,       \* the child of the main area's AnimatePresence that is
                    \* mounted: "chat", "history" or "none"
    chatSid,        \* the sessionId prop of the ChatInterface rendered last
    chatUserStale,  \* whether App holds another userData object than the one
                    \* the mounted ChatInterface was rendered with
    historySelected, \* the selectedSession prop the mounted ChatHistory was
                    \* rendered with, or Nil
    \* firebase: whether the account exists, whether its user is signed in,
    \* the user's document of the users collection (or Nil)
    fbAccount, fbUser, userDoc,
    \* onAuthStateChanged notifications not yet delivered (TRUE: a user), and
    \* the results of getCurrentUserData the callback is awaiting
    authEvents, cbReads,
    \* UserAuthentication state (useState)
    authMode, formData, errors, authIsLoading, showLocationModal,
    pendingUserData, isGettingLocation,
    authFlows,      \* the flows the handlers of the form are awaiting
    attempt,        \* how the latest login or registration attempt stands
    logouts,        \* the handleLogout calls awaiting authService.logout
    attemptCalls, logoutCalls, sessionsCreated,
    registered,     \* the name, age and location of the registration that succeeded
                    \* and whether the stored location was updated since, or Nil
    newChats,       \* the handleNewChat calls awaiting the register-user response
    newChatCalls,
    locReq,         \* the call of a location handler of App under way, or Nil
    locCalls,
    viewReqs,       \* the session requests of ChatHistory in flight
    viewCalls

chatVars == << messages, inputMessage, isLoading, isTyping, isChatEnded,
               chatReq, botTimers, loads, ends, saveTimer, saves,
               sendCalls, endCalls, saveCalls, lastSend, fallbackCalls, unhandled,
               srvMessages, srvActive, dbDoc, newDocs >>

cardVars == << userPreference, showFeedbackModal, feedbackText, pendingPreference,
               isSubmittingFeedback, cardUid, cardReq, submitCalls, skipCalls, alerts,
               prefPosts, feedbackDocs, localFeedback >>

viewVars == << appState, userData, userProfile, sessionId >>

fbVars == << fbAccount, fbUser, userDoc, authEvents >>

formVars == << formData, errors, authMode, authIsLoading, showLocationModal,
               pendingUserData, isGettingLocation >>

locVars == << appShowLocationModal, isUpdatingLocation, locReq, locCalls >>

reqVars == << logouts, logoutCalls, newChats, newChatCalls, viewReqs, viewCalls >>

mainVars == << mainView, chatSid, chatUserStale, historySelected >>

appVars == << viewVars, selectedSession, mainVars, fbVars, cbReads, formVars,
              authFlows, attempt, attemptCalls, sessionsCreated, registered,
              locVars, reqVars >>

vars == << chatVars, cardVars, appVars >>

\* ------------------------------------------------------------ chat backend
BotReply == << "r" >>
ClosingText == << "e" >>

UserMsg(n, text) == [id |-> n, sender |-> "user", content |-> text]
BotMsg(n, text) == [id |-> n, sender |-> "bot", content |-> text]

\* POST /api/chat: an active session records the user message and the bot's
\* reply and returns both; an ended session rejects the request.
SrvChatAccepts == srvActive
SrvChatUser(text) == UserMsg(Len(srvMessages) + 1, text)
SrvChatBot == BotMsg(Len(srvMessages) + 2, BotReply)

\* POST /api/end-chat/{id}: ends an active session and appends the closing
\* message; an ended session is left as it is.
SrvEndMessages == IF srvActive
                  THEN Append(srvMessages, BotMsg(Len(srvMessages) + 1, ClosingText))
                  ELSE srvMessages

\* GET /api/chat-session/{id}
SrvSession == [messages |-> srvMessages, is_active |-> srvActive]

ClosingCount(ms) == Cardinality({ i \in 1..Len(ms) : ms[i].content = ClosingText })

\* ------------------------------------------------- ChatInterface: debounce
\* The effect on [messages, userData, sessionId]: its cleanup clears the timer
\* armed by the previous run, and a new timer is armed when the transcript is
\* not empty.  The timer's callback closes over the render that armed it.
\* The effect as it would be without its cleanup: a timer that is pending
\* stays, and fires with the render it closed over.
DebounceEffect_KeepsPending(ms, ended) ==
    IF saveTimer # Nil THEN saveTimer
    ELSE IF Len(ms) > 0 THEN [messages |-> ms, isChatEnded |-> ended] ELSE Nil

DebounceEffect(ms, ended) ==
    IF Len(ms) > 0 THEN [messages |-> ms, isChatEnded |-> ended] ELSE Nil

\* ------------------------------------------------ ChatInterface: load
\* Each call of loadChatSession is a request of its own: a number no request
\* in flight has.
FreshLoadId ==
    CHOOSE n \in 1..(Cardinality(loads) + 1) : \A l \in loads : l.id # n

\* loadChatSession up to its await: the response that is now in flight, a
\* session read or a failure.  origin is "mount" (the load effect) or "end"
\* (the reload of endChat); afterEnded says that the endChat which issued it
\* found the session already ended.
LoadIssued(origin, afterEnded) ==
    { [id |-> FreshLoadId, origin |-> origin, afterEnded |-> afterEnded,
       ok |-> TRUE, data |-> SrvSession],
      [id |-> FreshLoadId, origin |-> origin, afterEnded |-> afterEnded,
       ok |-> FALSE, data |-> Nil] }

\* loadChatSession as it would be if the response were appended to the
\* transcript instead of replacing it.
LoadRespond_Appends(l) ==
    /\ l \in loads
    /\ loads' = loads \ {l}
    /\ IF l.ok
       THEN /\ messages' = messages \o l.data.messages
            /\ isChatEnded' = ~l.data.is_active
            /\ saveTimer' = DebounceEffect(messages \o l.data.messages, ~l.data.is_active)
       ELSE UNCHANGED << messages, isChatEnded, saveTimer >>
    /\ UNCHANGED << inputMessage, isLoading, isTyping, chatReq, botTimers, ends,
                    saves, sendCalls, endCalls, saveCalls, lastSend, fallbackCalls,
                    unhandled, srvMessages, srvActive, dbDoc, newDocs >>
    /\ UNCHANGED << cardVars, appVars >>

\* loadChatSession after its await: the transcript and the ended flag are
\* replaced by the response; an error is logged.
LoadRespond(l) ==
    /\ l \in loads
    /\ loads' = loads \ {l}
    /\ IF l.ok
       THEN /\ messages' = l.data.messages
            /\ isChatEnded' = ~l.data.is_active
            /\ saveTimer' = DebounceEffect(l.data.messages, ~l.data.is_active)
       ELSE UNCHANGED << messages, isChatEnded, saveTimer >>
    /\ UNCHANGED << inputMessage, isLoading, isTyping, chatReq, botTimers, ends,
                    saves, sendCalls, endCalls, saveCalls, lastSend, fallbackCalls,
                    unhandled, srvMessages, srvActive, dbDoc, newDocs >>
    /\ UNCHANGED << cardVars, appVars >>

\* ------------------------------------------------ ChatInterface: input
\* onChange of the input, rendered while the chat is not ended and enabled
\* while no send is loading.
SetInput(t) ==
    /\ ~isChatEnded /\ ~isLoading
    /\ inputMessage # t
    /\ inputMessage' = t
    /\ UNCHANGED << messages, isLoading, isTyping, isChatEnded, chatReq, botTimers,
                    loads, ends, saveTimer, saves, sendCalls, endCalls, saveCalls,
                    lastSend, fallbackCalls, unhandled, srvMessages, srvActive,
                    dbDoc, newDocs >>
    /\ UNCHANGED << cardVars, appVars >>

\* ------------------------------------------------ ChatInterface: send
\* sendMessage as it would be with the ended check left out of its guard.
SendRejected_IgnoresEnded == Trim(inputMessage) = <<>> \/ isLoading

\* The guard of sendMessage (the early return).
SendRejected == Trim(inputMessage) = <<>> \/ isLoading \/ isChatEnded

\* sendMessage up to its await.
SendMessage ==
    /\ IF SendRejected
       THEN /\ lastSend' = (IF Trim(inputMessage) = <<>> THEN "blank"
                            ELSE IF isLoading THEN "loading" ELSE "ended")
            /\ UNCHANGED << messages, inputMessage, isLoading, isTyping, isChatEnded,
                            chatReq, botTimers, loads, ends, saveTimer, saves,
                            sendCalls, endCalls, saveCalls, fallbackCalls, unhandled,
                            srvMessages, srvActive, dbDoc, newDocs >>
       ELSE /\ sendCalls < MaxSends
            /\ sendCalls' = sendCalls + 1
            /\ lastSend' = "accepted"
            /\ inputMessage' = <<>>
            /\ isLoading' = TRUE
            /\ isTyping' = TRUE
            /\ \E delivered \in BOOLEAN :
                 IF delivered /\ SrvChatAccepts
                 THEN /\ chatReq' = [ok |-> TRUE,
                                     user_message |-> SrvChatUser(Trim(inputMessage)),
                                     bot_message |-> SrvChatBot]
                      /\ srvMessages' = srvMessages \o
                                          << SrvChatUser(Trim(inputMessage)), SrvChatBot >>
                 ELSE /\ chatReq' = [ok |-> FALSE]
                      /\ srvMessages' = srvMessages
            /\ UNCHANGED << messages, isChatEnded, botTimers, loads, ends, saveTimer,
                            saves, endCalls, saveCalls, fallbackCalls, unhandled,
                            srvActive, dbDoc, newDocs >>
    /\ UNCHANGED << cardVars, appVars >>

\* The typing flag as it would be after the response without the catch
\* block's setIsTyping(false).
TypingAfterResponse_NoCatch(ok, typing) == typing

\* The typing flag after the response of the chat request: the try block
\* leaves it to the typing-delay timer, the catch block clears it.
TypingAfterResponse(ok, typing) == IF ok THEN typing ELSE FALSE

\* sendMessage after its await: the echoed user message is appended and the
\* typing-delay timer is started; catch clears the typing flag; finally clears
\* the loading flag.
ChatRespond ==
    /\ chatReq # Nil
    /\ chatReq' = Nil
    /\ isLoading' = FALSE
    /\ IF chatReq.ok
       THEN /\ messages' = Append(messages, chatReq.user_message)
            /\ botTimers' = Append(botTimers, chatReq.bot_message)
            /\ saveTimer' = DebounceEffect(Append(messages, chatReq.user_message),
                                           isChatEnded)
            /\ isTyping' = TypingAfterResponse(TRUE, isTyping)
       ELSE /\ isTyping' = TypingAfterResponse(FALSE, isTyping)
            /\ UNCHANGED << messages, botTimers, saveTimer >>
    /\ UNCHANGED << inputMessage, isChatEnded, loads, ends, saves, sendCalls,
                    endCalls, saveCalls, lastSend, fallbackCalls, unhandled,
                    srvMessages, srvActive, dbDoc, newDocs >>
    /\ UNCHANGED << cardVars, appVars >>

\* The typing-delay timer: timers of equal delay fire in the order they were
\* started.
BotTimerFire ==
    /\ botTimers # <<>>
    /\ messages' = Append(messages, Head(botTimers))
    /\ isTyping' = FALSE
    /\ botTimers' = Tail(botTimers)
    /\ saveTimer' = DebounceEffect(Append(messages, Head(botTimers)), isChatEnded)
    /\ UNCHANGED << inputMessage, isLoading, isChatEnded, chatReq, loads, ends,
                    saves, sendCalls, endCalls, saveCalls, lastSend, fallbackCalls,
                    unhandled, srvMessages, srvActive, dbDoc, newDocs >>
    /\ UNCHANGED << cardVars, appVars >>

\* ------------------------------------------------ database (authService)
\* What updateChatSession is given: the full snapshot of saveChatToFirebase, or
\* the ended status of endChat.
Snapshot(ms, ended) == [kind |-> "snapshot", messages |-> ms, isActive |-> ~ended]
EndedStatus == [kind |-> "status", messages |-> <<>>, isActive |-> FALSE]

\* The Date values of the writes, each call of new Date() or serverTimestamp()
\* giving a value of its own: the value of the write that follows w writes
\* to the record; 0 stands for null.
DateOfWrite(w) == w + 1

\* The number of writes a record has had.
WritesOf(doc) == IF doc = Nil THEN 0 ELSE doc.writes

\* setDoc of updateChatSession: the document becomes the given fields, with
\* createdAt: updates.createdAt || serverTimestamp().  A snapshot of
\* saveChatToFirebase carries createdAt: new Date() and endedAt: new Date()
\* or null; the ended status of endChat carries endedAt: new Date(), no
\* createdAt and no messages.
SetDoc(doc, u) ==
    LET now == DateOfWrite(WritesOf(doc)) IN
    [hasSnapshot |-> u.kind = "snapshot", messages |-> u.messages,
     isActive |-> u.isActive, writes |-> WritesOf(doc) + 1, createdAt |-> now,
     endedAt |-> IF u.isActive THEN 0 ELSE now]

\* updateDoc of updateChatSession: the given fields are merged into the
\* document.
UpdateDoc(doc, u) ==
    LET now == DateOfWrite(WritesOf(doc)) IN
    IF u.kind = "snapshot"
    THEN [hasSnapshot |-> TRUE, messages |-> u.messages, isActive |-> u.isActive,
          writes |-> doc.writes + 1, createdAt |-> now,
          endedAt |-> IF u.isActive THEN 0 ELSE now]
    ELSE [doc EXCEPT !.isActive = u.isActive, !.writes = doc.writes + 1,
                     !.endedAt = now]

\* The write of authService.updateChatSession: setDoc when its getDoc found
\* no document, updateDoc when it found one.
UpdateChatSession(doc, u, exists) ==
    IF exists THEN UpdateDoc(doc, u) ELSE SetDoc(doc, u)

\* authService.saveChatSession: addDoc under a generated id.
SaveChatSession(docs, data) ==
    Append(docs, [hasSnapshot |-> TRUE, messages |-> data.messages,
                  isActive |-> data.isActive])

\* ------------------------------------------------ ChatInterface: save
\* A call of saveChatToFirebase that awaits authService.updateChatSession:
\* first its getDoc, then its setDoc or updateDoc.
SaveCall(id, snap) ==
    [id |-> id, phase |-> "getDoc", exists |-> FALSE, kind |-> snap.kind,
     messages |-> snap.messages, isActive |-> snap.isActive]

\* The debounce timer fires: saveChatToFirebase builds the snapshot from the
\* render it closes over and awaits updateChatSession.
SaveTimerFire ==
    /\ saveTimer # Nil
    /\ saveCalls < MaxSaves
    /\ saveCalls' = saveCalls + 1
    /\ saves' = saves \cup { SaveCall(saveCalls + 1,
                                      Snapshot(saveTimer.messages,
                                               saveTimer.isChatEnded)) }
    /\ saveTimer' = Nil
    /\ UNCHANGED << messages, inputMessage, isLoading, isTyping, isChatEnded,
                    chatReq, botTimers, loads, ends, sendCalls, endCalls, lastSend,
                    fallbackCalls, unhandled, srvMessages, srvActive, dbDoc, newDocs >>
    /\ UNCHANGED << cardVars, appVars >>

\* updateChatSession after its getDoc: the write that follows is a setDoc or
\* an updateDoc by what the read found.
SaveRead(s) ==
    /\ s \in saves /\ s.phase = "getDoc"
    /\ saves' = (saves \ {s}) \cup { [s EXCEPT !.phase = "write",
                                                !.exists = (dbDoc # Nil)] }
    /\ UNCHANGED << messages, inputMessage, isLoading, isTyping, isChatEnded,
                    chatReq, botTimers, loads, ends, saveTimer, sendCalls, endCalls,
                    saveCalls, lastSend, fallbackCalls, unhandled, srvMessages,
                    srvActive, dbDoc, newDocs >>
    /\ UNCHANGED << cardVars, appVars >>

\* `const chatSession` is declared inside the try block of saveChatToFirebase,
\* so the name is not bound in its catch block.
ChatSessionInCatchScope == FALSE

\* The catch block of saveChatToFirebase: it spreads chatSession into the data
\* for authService.saveChatSession inside a try of its own.  Evaluating the
\* unbound name throws a ReferenceError, which the inner catch logs.
FallbackSave(s) ==
    IF ChatSessionInCatchScope
    THEN /\ fallbackCalls' = fallbackCalls + 1
         /\ \E added \in BOOLEAN :
              newDocs' = IF added THEN SaveChatSession(newDocs, s) ELSE newDocs
    ELSE UNCHANGED << fallbackCalls, newDocs >>

\* saveChatToFirebase after its await: updateChatSession has written the
\* document.
SaveDone(s) ==
    /\ s \in saves /\ s.phase = "write"
    /\ saves' = saves \ {s}
    /\ dbDoc' = UpdateChatSession(dbDoc, s, s.exists)
    /\ UNCHANGED << messages, inputMessage, isLoading, isTyping, isChatEnded,
                    chatReq, botTimers, loads, ends, saveTimer, sendCalls, endCalls,
                    saveCalls, lastSend, fallbackCalls, unhandled, srvMessages,
                    srvActive, newDocs >>
    /\ UNCHANGED << cardVars, appVars >>

\* saveChatToFirebase after its await: updateChatSession has thrown, in its
\* read or in its write.
SaveThrows(s) ==
    /\ s \in saves
    /\ saves' = saves \ {s}
    /\ FallbackSave(s)
    /\ UNCHANGED << messages, inputMessage, isLoading, isTyping, isChatEnded,
                    chatReq, botTimers, loads, ends, saveTimer, sendCalls, endCalls,
                    saveCalls, lastSend, unhandled, srvMessages, srvActive, dbDoc >>
    /\ UNCHANGED << cardVars, appVars >>

\* ------------------------------------------------ ChatInterface: end chat
\* endChat up to its first await; the End Chat button is rendered while the
\* chat is not ended.  The backend ends the session when the request reaches
\* it; afterEnded is the session's state as the request found it.  mounted
\* says that the component that made the call is still mounted; session is
\* Nil while the component is on the session of the call, and else holds the
\* transcript of that session as the backend keeps it.
EndChat ==
    /\ ~isChatEnded
    /\ endCalls < MaxEnds
    /\ endCalls' = endCalls + 1
    /\ \E ok \in BOOLEAN :
         /\ ends' = ends \cup { [id |-> endCalls + 1, phase |-> "post", ok |-> ok,
                                 afterEnded |-> ~srvActive, exists |-> FALSE,
                                 mounted |-> TRUE, session |-> Nil] }
         /\ srvMessages' = IF ok THEN SrvEndMessages ELSE srvMessages
         /\ srvActive' = IF ok THEN FALSE ELSE srvActive
    /\ UNCHANGED << messages, inputMessage, isLoading, isTyping, isChatEnded,
                    chatReq, botTimers, loads, saveTimer, saves, sendCalls,
                    saveCalls, lastSend, fallbackCalls, unhandled, dbDoc, newDocs >>
    /\ UNCHANGED << cardVars, appVars >>

\* endChat after the end-chat POST: the session is marked ended and
\* updateChatSession is awaited, which starts with its getDoc; a failed POST
\* goes to the catch block.
EndRespond(e) ==
    /\ e \in ends /\ e.phase = "post"
    /\ IF e.ok
       THEN /\ isChatEnded' = (IF e.mounted THEN TRUE ELSE isChatEnded)
            /\ ends' = (ends \ {e}) \cup { [e EXCEPT !.phase = "getDoc"] }
       ELSE /\ isChatEnded' = isChatEnded
            /\ ends' = ends \ {e}
    /\ UNCHANGED << messages, inputMessage, isLoading, isTyping, chatReq, botTimers,
                    loads, saveTimer, saves, sendCalls, endCalls, saveCalls, lastSend,
                    fallbackCalls, unhandled, srvMessages, srvActive, dbDoc, newDocs >>
    /\ UNCHANGED << cardVars, appVars >>

\* updateChatSession of endChat after its getDoc: the write that follows is a
\* setDoc or an updateDoc by what the read found; a failed read goes to the
\* catch block of endChat.
EndUpdateRead(e) ==
    /\ e \in ends /\ e.phase = "getDoc"
    /\ \E ok \in BOOLEAN :
         ends' = IF ok
                 THEN (ends \ {e}) \cup
                          { [e EXCEPT !.phase = "write",
                                      !.exists = (e.session = Nil /\ dbDoc # Nil)] }
                 ELSE ends \ {e}
    /\ UNCHANGED << messages, inputMessage, isLoading, isTyping, isChatEnded,
                    chatReq, botTimers, loads, saveTimer, saves, sendCalls, endCalls,
                    saveCalls, lastSend, fallbackCalls, unhandled, srvMessages,
                    srvActive, dbDoc, newDocs >>
    /\ UNCHANGED << cardVars, appVars >>

\* The reload of endChat: loadChatSession of the render that made the call,
\* for the session of that render.
EndReload(e) ==
    IF e.session = Nil
    THEN LoadIssued("end", e.afterEnded)
    ELSE { [id |-> FreshLoadId, origin |-> "end", afterEnded |-> e.afterEnded,
            ok |-> TRUE, data |-> e.session],
           [id |-> FreshLoadId, origin |-> "end", afterEnded |-> e.afterEnded,
            ok |-> FALSE, data |-> Nil] }

\* endChat after the database update: the transcript is reloaded (not
\* awaited); a failed update goes to the catch block.
EndUpdateDone(e) ==
    /\ e \in ends /\ e.phase = "write"
    /\ ends' = ends \ {e}
    /\ \E ok \in BOOLEAN :
         IF ok
         THEN /\ dbDoc' = IF e.session = Nil
                          THEN UpdateChatSession(dbDoc, EndedStatus, e.exists)
                          ELSE dbDoc
              /\ IF e.mounted
                 THEN \E l \in EndReload(e) : loads' = loads \cup {l}
                 ELSE loads' = loads
         ELSE UNCHANGED << dbDoc, loads >>
    /\ UNCHANGED << messages, inputMessage, isLoading, isTyping, isChatEnded,
                    chatReq, botTimers, saveTimer, saves, sendCalls, endCalls,
                    saveCalls, lastSend, fallbackCalls, unhandled, srvMessages,
                    srvActive, newDocs >>
    /\ UNCHANGED << cardVars, appVars >>

\* ---------------------------------------------------------- RestaurantCard
Preferences == { "like", "dislike" }

NullText == [null |-> TRUE, text |-> <<>>]

\* The feedback as it would be without the trim.
FeedbackOrNull_Untrimmed(t) == IF t = <<>> THEN NullText ELSE [null |-> FALSE, text |-> t]

\* feedbackText.trim() || null
FeedbackOrNull(t) == IF Trim(t) = <<>> THEN NullText ELSE [null |-> FALSE, text |-> Trim(t)]

\* The user's clicks on one card in one behaviour are bounded.
CardBudget == submitCalls + skipCalls + alerts < MaxCardEvents

\* The card has the id of an authenticated user.
HasUid == cardUid

\* The feedback prompt is rendered.
ModalOpen == showFeedbackModal /\ pendingPreference # None

\* handlePreference: the like and dislike buttons of the card.  They stay
\* enabled while the prompt is open or a submission is being saved, and the
\* handler does not look at either.
HandlePreference(p) ==
    /\ CardBudget
    /\ IF ~HasUid
       THEN /\ alerts' = alerts + 1
            /\ UNCHANGED << pendingPreference, showFeedbackModal >>
       ELSE /\ pendingPreference' = p
            /\ showFeedbackModal' = TRUE
            /\ alerts' = alerts
    /\ UNCHANGED << userPreference, feedbackText, isSubmittingFeedback, cardUid,
                    cardReq, submitCalls, skipCalls, prefPosts, feedbackDocs,
                    localFeedback >>
    /\ UNCHANGED << chatVars, appVars >>

\* onChange of the prompt's textarea.
TypeFeedback(t) ==
    /\ ModalOpen
    /\ feedbackText # t
    /\ feedbackText' = t
    /\ UNCHANGED << userPreference, showFeedbackModal, pendingPreference,
                    isSubmittingFeedback, cardUid, cardReq, submitCalls, skipCalls,
                    alerts, prefPosts, feedbackDocs, localFeedback >>
    /\ UNCHANGED << chatVars, appVars >>

\* maxLength of the prompt's textarea.
MaxLength == 500

\* A text of n characters.
Filler(n) == [i \in 1..n |-> "a"]

\* The texts a user types or pastes into the textarea at the caret's end.
InsertedTexts == { Filler(MaxLength - 1), Filler(MaxLength), Filler(MaxLength + 1) }

\* The inserted text as it would be taken without the maxLength attribute.
AcceptedInput_Unbounded(text, s) == s

\* The part of an inserted text the textarea takes: maxLength lets the user
\* bring the value up to MaxLength characters and no further.
AcceptedInput(text, s) ==
    IF Len(text) + Len(s) <= MaxLength THEN s
    ELSE SubSeq(s, 1, MaxLength - Len(text))

\* onChange of the prompt's textarea after the user has typed or pasted s at
\* the end of the text; an insertion of which nothing is taken fires no
\* change event.
InsertFeedback(s) ==
    /\ ModalOpen
    /\ AcceptedInput(feedbackText, s) # <<>>
    /\ feedbackText' = feedbackText \o AcceptedInput(feedbackText, s)
    /\ UNCHANGED << userPreference, showFeedbackModal, pendingPreference,
                    isSubmittingFeedback, cardUid, cardReq, submitCalls, skipCalls,
                    alerts, prefPosts, feedbackDocs, localFeedback >>
    /\ UNCHANGED << chatVars, appVars >>

\* handleFeedbackCancel: the prompt's Skip button, disabled while a
\* submission is being saved.
HandleFeedbackCancel ==
    /\ ModalOpen /\ ~isSubmittingFeedback /\ CardBudget
    /\ showFeedbackModal' = FALSE
    /\ feedbackText' = <<>>
    /\ pendingPreference' = None
    /\ skipCalls' = skipCalls + 1
    /\ UNCHANGED << userPreference, isSubmittingFeedback, cardUid, cardReq,
                    submitCalls, alerts, prefPosts, feedbackDocs, localFeedback >>
    /\ UNCHANGED << chatVars, appVars >>

\* handleFeedbackSubmit up to its first await: the prompt's Submit button.
\* The restaurant-preference POST is issued; the backend records it when the
\* request reaches it.
HandleFeedbackSubmit ==
    /\ ModalOpen /\ ~isSubmittingFeedback /\ CardBudget
    /\ IF ~HasUid \/ pendingPreference = None
       THEN /\ alerts' = alerts + 1
            /\ UNCHANGED << isSubmittingFeedback, cardReq, submitCalls, prefPosts >>
       ELSE /\ alerts' = alerts
            /\ isSubmittingFeedback' = TRUE
            /\ submitCalls' = submitCalls + 1
            /\ \E ok \in BOOLEAN :
                 /\ cardReq' = [phase |-> "post", ok |-> ok,
                                preference |-> pendingPreference, text |-> feedbackText]
                 /\ prefPosts' = IF ok
                                 THEN Append(prefPosts,
                                             [preference |-> pendingPreference,
                                              feedback |-> FeedbackOrNull(feedbackText)])
                                 ELSE prefPosts
    /\ UNCHANGED << userPreference, showFeedbackModal, feedbackText,
                    pendingPreference, cardUid, skipCalls, feedbackDocs, localFeedback >>
    /\ UNCHANGED << chatVars, appVars >>

\* handleFeedbackSubmit after the POST: authService.saveUserFeedback is
\* awaited.
SubmitPosted ==
    /\ cardReq # Nil /\ cardReq.phase = "post" /\ cardReq.ok
    /\ cardReq' = [cardReq EXCEPT !.phase = "save"]
    /\ UNCHANGED << userPreference, showFeedbackModal, feedbackText,
                    pendingPreference, isSubmittingFeedback, cardUid, submitCalls,
                    skipCalls, alerts, prefPosts, feedbackDocs, localFeedback >>
    /\ UNCHANGED << chatVars, appVars >>

\* handleFeedbackSubmit when the POST fails: catch alerts, finally clears the
\* submitting flag.
SubmitPostThrows ==
    /\ cardReq # Nil /\ cardReq.phase = "post" /\ ~cardReq.ok
    /\ cardReq' = Nil
    /\ alerts' = alerts + 1
    /\ isSubmittingFeedback' = FALSE
    /\ UNCHANGED << userPreference, showFeedbackModal, feedbackText,
                    pendingPreference, cardUid, submitCalls, skipCalls, prefPosts,
                    feedbackDocs, localFeedback >>
    /\ UNCHANGED << chatVars, appVars >>

\* The write as it would be if the card's record were kept under one id and
\* set again by each submission.
SaveUserFeedback_Overwrites(docs, d) ==
    IF docs = <<>> THEN << d >> ELSE [docs EXCEPT ![Len(docs)] = d]

\* authService.saveUserFeedback: addDoc creates a new document of the
\* userFeedback collection under a fresh id.
SaveUserFeedback(docs, d) == Append(docs, d)

\* handleFeedbackSubmit after saveUserFeedback has added the record: the
\* indicator is set, the prompt is reset and the entry is pushed to the
\* localStorage log.
SubmitSaved ==
    /\ cardReq # Nil /\ cardReq.phase = "save"
    /\ cardReq' = Nil
    /\ feedbackDocs' = SaveUserFeedback(feedbackDocs,
                                        [preference |-> cardReq.preference,
                                         feedback |-> FeedbackOrNull(cardReq.text)])
    /\ userPreference' = cardReq.preference
    /\ showFeedbackModal' = FALSE
    /\ feedbackText' = <<>>
    /\ pendingPreference' = None
    /\ localFeedback' = Append(localFeedback, [preference |-> cardReq.preference,
                                               feedback |-> Trim(cardReq.text)])
    /\ isSubmittingFeedback' = FALSE
    /\ UNCHANGED << cardUid, submitCalls, skipCalls, alerts, prefPosts >>
    /\ UNCHANGED << chatVars, appVars >>

\* handleFeedbackSubmit when saveUserFeedback throws.
SubmitSaveThrows ==
    /\ cardReq # Nil /\ cardReq.phase = "save"
    /\ cardReq' = Nil
    /\ alerts' = alerts + 1
    /\ isSubmittingFeedback' = FALSE
    /\ UNCHANGED << userPreference, showFeedbackModal, feedbackText,
                    pendingPreference, cardUid, submitCalls, skipCalls, prefPosts,
                    feedbackDocs, localFeedback >>
    /\ UNCHANGED << chatVars, appVars >>

\* The uid a card of the chat view has: ChatInterface hands its userData to
\* RestaurantRecommendations, which takes only restaurants and sessionId from
\* its props and renders each RestaurantCard without a userData prop.
RecommendationsCardUid(uid) == FALSE

\* The transcript shows a bot message, whose restaurants are rendered as
\* cards.
CardRendered == \E i \in 1..Len(messages) : messages[i].sender = "bot"

\* A mounted card whose userData prop has a uid, or has none.
CardMounted(uid) ==
    /\ userPreference = None /\ showFeedbackModal = FALSE /\ feedbackText = <<>>
    /\ pendingPreference = None /\ isSubmittingFeedback = FALSE
    /\ cardUid = uid
    /\ cardReq = Nil /\ submitCalls = 0 /\ skipCalls = 0 /\ alerts = 0
    /\ prefPosts = <<>> /\ feedbackDocs = <<>> /\ localFeedback = <<>>

NextCard ==
    \/ \E p \in Preferences : HandlePreference(p)
    \/ \E t \in InputTexts : TypeFeedback(t)
    \/ HandleFeedbackCancel
    \/ HandleFeedbackSubmit
    \/ SubmitPosted
    \/ SubmitPostThrows
    \/ SubmitSaved
    \/ SubmitSaveThrows

\* ============================================== App and UserAuthentication
\* A value that is a text or undefined (a property the object does not have).
Loc(t) == [undef |-> FALSE, text |-> t]
UndefinedLoc == [undef |-> TRUE, text |-> <<>>]
\* A session id: Nil (null), undefined, or the id the backend returned.
Undefined == [undef |-> TRUE]
SessionIdOf(n) == [sid |-> n]

\* The UserData document of the users collection (one account, one uid).
\* The document as it would be if register stored the age the form starts
\* with and no current location.
UserRecord_Defaults(name, age, location) ==
    [uid |-> "u1", name |-> name, age |-> 25,
     defaultLocation |-> location, currentLocation |-> <<>>]

UserRecord(name, age, location) ==
    [uid |-> "u1", name |-> name, age |-> age,
     defaultLocation |-> location, currentLocation |-> location]
StoredUser == UserRecord(<<"n">>, 25, <<"x">>)

\* The form's fields and the values typed into them.
GoodEmail == <<"a", "@", "b", ".", "c">>
GoodPassword == <<"p", "p", "p", "p", "p", "p">>
InitialForm ==
    [email |-> <<>>, password |-> <<>>, name |-> <<>>, age |-> 25, location |-> <<>>]
FieldValues ==
    [email |-> { <<>>, GoodEmail },
     password |-> { <<>>, GoodPassword },
     name |-> { <<>>, <<"n">> },
     age |-> { 25, 12 },
     location |-> { <<>>, <<"x">> }]
Fields == DOMAIN FieldValues
AuthModes == {"login", "register"}

\* /\S+@\S+\.\S+/.test(s): a non-space character, "@", a run of non-space
\* characters, ".", a non-space character, anywhere in s.
NonSpace(c) == c # " "
MatchesEmail(s) ==
    \E i \in 1..Len(s), j \in 1..Len(s) :
        /\ s[i] = "@" /\ i > 1 /\ NonSpace(s[i - 1])
        /\ s[j] = "." /\ j > i + 1 /\ j < Len(s) /\ NonSpace(s[j + 1])
        /\ \A k \in (i + 1)..(j - 1) : NonSpace(s[k])

\* validateForm as it would be with the lower age limit off by one.
ValidateForm_AgeOffByOne(form, mode) ==
    (IF Trim(form.email) = <<>> \/ ~MatchesEmail(form.email) THEN {"email"} ELSE {})
    \cup (IF Trim(form.password) = <<>> \/ Len(form.password) < 6
          THEN {"password"} ELSE {})
    \cup (IF mode = "register" /\ Trim(form.name) = <<>> THEN {"name"} ELSE {})
    \cup (IF mode = "register" /\ (form.age < 12 \/ form.age > 120)
          THEN {"age"} ELSE {})

\* validateForm: the keys of newErrors.
ValidateForm(form, mode) ==
    (IF Trim(form.email) = <<>> \/ ~MatchesEmail(form.email) THEN {"email"} ELSE {})
    \cup (IF Trim(form.password) = <<>> \/ Len(form.password) < 6
          THEN {"password"} ELSE {})
    \cup (IF mode = "register" /\ Trim(form.name) = <<>> THEN {"name"} ELSE {})
    \cup (IF mode = "register" /\ (form.age < 13 \/ form.age > 120)
          THEN {"age"} ELSE {})

\* The UserAuthentication component is rendered in the 'auth' state only.  Its
\* state exists while it is mounted; while it is not, the variables hold the
\* values a fresh mount starts from.
FormMounted == appState = "auth"
FormUnmounted ==
    /\ formData' = InitialForm /\ errors' = {} /\ authMode' = "login"
    /\ authIsLoading' = FALSE /\ showLocationModal' = FALSE
    /\ pendingUserData' = FALSE /\ isGettingLocation' = FALSE

\* What a flow reads later of the formData its handler closes over: the name
\* and the age that authService.register stores.  The email and the password
\* go into the sign-in and create calls, whose outcomes are chosen when the
\* calls are made.
ClosureForm(form) == [name |-> form.name, age |-> form.age]

\* A flow a handler of the form is awaiting: which handler, the call it
\* awaits and that call's outcome, the user data and session id obtained, the
\* form the handler's closure holds (Nil for a login, which reads it no
\* more), and whether the component that started it is still mounted (a
\* state setter of an unmounted component does nothing).  Each call of a
\* handler is a flow of its own.
AuthFlow(id, kind, phase, out, data, sid, form, location, mounted) ==
    [id |-> id, kind |-> kind, phase |-> phase, out |-> out, data |-> data,
     sid |-> sid, form |-> form, location |-> location, mounted |-> mounted]
FlowStep(f, phase, out) == [f EXCEPT !.phase = phase, !.out = out]

\* The flows in flight after flow f has become g, or has ended.
FlowBecomes(f, g) == (authFlows \ {f}) \cup {g}
FlowEnds(f) == authFlows \ {f}

\* firebase/auth notifies onAuthStateChanged when the current user changes.
SignedIn ==
    /\ fbUser' = TRUE
    /\ authEvents' = IF fbUser THEN authEvents ELSE Append(authEvents, TRUE)
SignedOut ==
    /\ fbUser' = FALSE
    /\ authEvents' = IF fbUser THEN Append(authEvents, FALSE) ELSE authEvents

\* The profile both handlers of the form build: userData.location, a property
\* UserData does not have.
FormProfile(data) == [name |-> data.name, age |-> data.age, location |-> UndefinedLoc]
\* The profile the onAuthStateChanged callback builds.
CallbackProfile(data) ==
    [name |-> data.name, age |-> data.age, location |-> Loc(data.currentLocation)]

\* App renders ChatInterface in the 'chat' state when the profile, the
\* session id and the account are all truthy.
ChatRendered ==
    /\ appState = "chat"
    /\ userProfile # Nil /\ userData # Nil
    /\ sessionId # Nil /\ sessionId # Undefined

\* ChatHistory is rendered in the 'history' state when there is an account.
HistoryRendered == appState = "history" /\ userData # Nil

\* The header, with its Change and Logout buttons, is rendered in the 'chat'
\* and 'history' states.
HeaderRendered == appState \in {"chat", "history"}

\* ChatInterface unmounts (its exit animation has ended, or App renders its
\* main area no more): the cleanup of the debounce effect clears the
\* pending timer.  The other variables keep what the component held, the
\* transcript as it was last shown; its pending responses and typing timers
\* find no component to update.
ChatUnmounts ==
    /\ saveTimer' = Nil
    /\ UNCHANGED << messages, inputMessage, isLoading, isTyping, isChatEnded,
                    chatReq, botTimers, loads, ends, saves, sendCalls, endCalls,
                    saveCalls, lastSend, fallbackCalls, unhandled, srvMessages,
                    srvActive, dbDoc, newDocs >>

\* What the mounted ChatInterface does when its sessionId prop changes: the
\* component keeps its place under the constant key "chat", so its state
\* (messages, isChatEnded, input) is kept; the load effect runs again for the
\* new session and the debounce effect, which depends on sessionId, clears its
\* timer and arms a new one over the messages it holds.  From here on the
\* backend and database variables describe the new session, which is empty
\* and active and has no record yet; the writes still in flight go to the
\* record of the previous session and are followed no further.  An endChat
\* call still under way belongs to the render of the previous session: it
\* goes on with that session's id.
SessionIdChanged ==
    /\ srvMessages' = <<>> /\ srvActive' = TRUE
    /\ dbDoc' = Nil
    /\ saves' = {}
    /\ ends' = { IF e.session = Nil THEN [e EXCEPT !.session = SrvSession] ELSE e :
                 e \in ends }
    /\ \E ok \in BOOLEAN :
          loads' = loads \cup
              { [id |-> FreshLoadId, origin |-> "newchat", afterEnded |-> FALSE,
                 ok |-> ok,
                 data |-> IF ok THEN [messages |-> <<>>, is_active |-> TRUE]
                          ELSE Nil] }
    /\ saveTimer' = DebounceEffect(messages, isChatEnded)
    /\ UNCHANGED << messages, inputMessage, isLoading, isTyping, isChatEnded,
                    chatReq, botTimers, sendCalls, endCalls,
                    saveCalls, lastSend, fallbackCalls, unhandled, newDocs >>

\* What the mounted ChatInterface does when its userData prop is set anew:
\* the debounce effect, which depends on userData, clears its timer and arms
\* a new one over the messages it holds.
UserDataChanged ==
    /\ saveTimer' = DebounceEffect(messages, isChatEnded)
    /\ UNCHANGED << messages, inputMessage, isLoading, isTyping, isChatEnded,
                    chatReq, botTimers, loads, ends, saves, sendCalls, endCalls,
                    saveCalls, lastSend, fallbackCalls, unhandled, srvMessages,
                    srvActive, dbDoc, newDocs >>

\* A new ChatInterface mounts for session sid: its state starts empty and its
\* load effect issues the request for the session's transcript.  What the
\* instance before it still awaits finds no component to update: responses
\* and typing timers are dropped, an endChat call under way goes on with its
\* database update and skips its reload.  When sid is the session the
\* instance before it had, the backend and database variables go on
\* describing it; otherwise they describe the new session, as in
\* SessionIdChanged.
ChatMounts(sid) ==
    LET same == sid = chatSid IN
    /\ messages' = <<>> /\ inputMessage' = <<>>
    /\ isLoading' = FALSE /\ isTyping' = FALSE /\ isChatEnded' = FALSE
    /\ chatReq' = Nil /\ botTimers' = <<>> /\ saveTimer' = Nil
    /\ srvMessages' = (IF same THEN srvMessages ELSE <<>>)
    /\ srvActive' = (IF same THEN srvActive ELSE TRUE)
    /\ dbDoc' = (IF same THEN dbDoc ELSE Nil)
    /\ saves' = (IF same THEN saves ELSE {})
    /\ ends' = { [e EXCEPT !.mounted = FALSE,
                           !.session = IF same \/ e.session # Nil THEN e.session
                                       ELSE SrvSession] : e \in ends }
    /\ \E ok \in BOOLEAN :
          loads' = { [id |-> 1, origin |-> "mount", afterEnded |-> FALSE, ok |-> ok,
                      data |-> IF ~ok THEN Nil
                               ELSE IF same THEN SrvSession
                               ELSE [messages |-> <<>>, is_active |-> TRUE]] }
    /\ UNCHANGED << sendCalls, endCalls, saveCalls, lastSend, fallbackCalls,
                    unhandled, newDocs >>

\* The child App's render puts under the AnimatePresence of its main area.
MainChild ==
    IF ChatRendered THEN "chat" ELSE IF HistoryRendered THEN "history" ELSE "none"

\* The components that are mounted under it: a child that App renders no
\* more stays mounted until its exit animation has ended.
ChatInterfaceMounted == mainView = "chat"
ChatHistoryMounted == mainView = "history"

\* What a step of App does to its main area, once the step has set appState,
\* userData, userProfile, sessionId and selectedSession.  userDataSet says
\* that the step has called setUserData with a new object.
\*   Without the header (the 'loading' and 'auth' states) App renders no
\* AnimatePresence: what was mounted under it unmounts at once.
\*   With nothing mounted, the child App renders mounts at once.
\*   The mounted child, when App renders it, is given the new props, also
\* when it was on its way out: ChatInterface runs the effects that depend on
\* the props that changed.
\*   The mounted child, when App renders it no more, starts or continues its
\* exit animation (mode="wait": the child that enters waits): it stays
\* mounted as it was rendered last, with its state, timers and handlers.
MainFollows(userDataSet) ==
    LET child == MainChild' IN
    IF ~HeaderRendered'
    THEN /\ mainView' = "none" /\ chatSid' = chatSid
         /\ chatUserStale' = FALSE /\ historySelected' = Nil
         /\ IF mainView = "chat" THEN ChatUnmounts ELSE UNCHANGED chatVars
    ELSE IF mainView = "none"
    THEN /\ mainView' = child
         /\ chatUserStale' = FALSE
         /\ historySelected' = (IF child = "history" THEN selectedSession' ELSE Nil)
         /\ IF child = "chat"
            THEN /\ chatSid' = sessionId'
                 /\ ChatMounts(sessionId')
            ELSE /\ chatSid' = chatSid
                 /\ UNCHANGED chatVars
    ELSE IF mainView = child
    THEN /\ mainView' = mainView
         /\ chatUserStale' = FALSE
         /\ IF child = "chat"
            THEN /\ chatSid' = sessionId'
                 /\ historySelected' = Nil
                 /\ IF sessionId' # chatSid THEN SessionIdChanged
                    ELSE IF userDataSet \/ chatUserStale THEN UserDataChanged
                    ELSE UNCHANGED chatVars
            ELSE /\ chatSid' = chatSid
                 /\ historySelected' = selectedSession'
                 /\ UNCHANGED chatVars
    ELSE /\ UNCHANGED << mainView, chatSid, historySelected >>
         /\ chatUserStale' = (chatUserStale \/ (mainView = "chat" /\ userDataSet))
         /\ UNCHANGED chatVars

\* What a step of App does to the form at the gate, once the step has set
\* appState: when the gate is left the form unmounts and the flows its
\* handlers await go on without it.  flows are the flows in flight after the
\* step.
GateFollows(flows) ==
    IF appState = "auth" /\ appState' # "auth"
    THEN /\ FormUnmounted
         /\ authFlows' = { [f EXCEPT !.mounted = FALSE] : f \in flows }
    ELSE /\ UNCHANGED formVars
         /\ authFlows' = flows

\* handleInputChange, from the input the field is bound to: the fields of
\* the form are disabled while isLoading, name and age are rendered in the
\* register mode, the location input in the location modal, where it is
\* disabled while isGettingLocation.
HandleInputChange(field, value) ==
    /\ FormMounted
    /\ formData[field] # value
    /\ IF field = "location" THEN showLocationModal /\ ~isGettingLocation
       ELSE ~authIsLoading
    /\ field \in {"name", "age"} => authMode = "register"
    /\ formData' = [formData EXCEPT ![field] = value]
    /\ errors' = errors \ {field}
    /\ UNCHANGED << authMode, authIsLoading, showLocationModal, pendingUserData,
                    isGettingLocation >>
    /\ UNCHANGED << viewVars, selectedSession, fbVars, cbReads, authFlows, attempt,
                    attemptCalls, sessionsCreated, registered, mainVars, locVars,
                    reqVars >>
    /\ UNCHANGED << chatVars, cardVars >>

\* The Sign In and Sign Up tabs of the form.
SetAuthMode(m) ==
    /\ FormMounted
    /\ authMode # m
    /\ authMode' = m
    /\ UNCHANGED << formData, errors, authIsLoading, showLocationModal,
                    pendingUserData, isGettingLocation >>
    /\ UNCHANGED << viewVars, selectedSession, fbVars, cbReads, authFlows, attempt,
                    attemptCalls, sessionsCreated, registered, mainVars, locVars,
                    reqVars >>
    /\ UNCHANGED << chatVars, cardVars >>

\* handleAuthSubmit up to its first await; the submit button and the fields
\* are disabled while isLoading.  An invalid form returns with its errors.
\* Login awaits authService.login, whose first call is
\* signInWithEmailAndPassword: it succeeds only for the registered account.
\* Registration opens the location modal and runs to its finally block.
HandleAuthSubmit ==
    /\ FormMounted /\ ~authIsLoading
    /\ LET errs == ValidateForm(formData, authMode) IN
       /\ errors' = errs
       /\ IF errs # {}
          THEN /\ attempt' = None
               /\ UNCHANGED << authIsLoading, showLocationModal, pendingUserData,
                               authFlows, fbUser, authEvents, attemptCalls >>
          ELSE IF authMode = "login"
          THEN /\ attemptCalls < MaxAttempts
               /\ attemptCalls' = attemptCalls + 1
               /\ authIsLoading' = TRUE
               /\ attempt' = "running"
               /\ \E ok \in BOOLEAN :
                    /\ ok => fbAccount
                    /\ IF ok THEN SignedIn ELSE UNCHANGED << fbUser, authEvents >>
                    /\ authFlows' = authFlows \cup
                           { AuthFlow(attemptCalls + 1, "login", "signIn",
                                      IF ok THEN "ok" ELSE "throw",
                                      Nil, Nil, Nil, <<>>, TRUE) }
               /\ UNCHANGED << showLocationModal, pendingUserData >>
          ELSE /\ pendingUserData' = TRUE
               /\ showLocationModal' = TRUE
               /\ authIsLoading' = FALSE
               /\ attempt' = "running"
               /\ UNCHANGED << authFlows, fbUser, authEvents, attemptCalls >>
    /\ UNCHANGED << formData, authMode, isGettingLocation >>
    /\ UNCHANGED << viewVars, selectedSession, fbAccount, userDoc, cbReads,
                    sessionsCreated, registered, mainVars, locVars, reqVars >>
    /\ UNCHANGED << chatVars, cardVars >>

\* The catch and finally blocks of handleAuthSubmit.
LoginFails(f) ==
    /\ IF f.mounted
       THEN /\ errors' = {"general"}
            /\ authIsLoading' = FALSE
            /\ UNCHANGED << formData, authMode, showLocationModal,
                            pendingUserData, isGettingLocation >>
       ELSE UNCHANGED formVars
    /\ authFlows' = FlowEnds(f)
    /\ attempt' = "failed"
    /\ UNCHANGED << viewVars, mainVars >>
    /\ UNCHANGED chatVars

\* The catch and finally blocks of handleLocationSubmit, then the finally
\* block of the location handler that awaited it.
RegisterFails(f) ==
    /\ IF f.mounted
       THEN /\ errors' = {"general"}
            /\ showLocationModal' = FALSE
            /\ authIsLoading' = FALSE
            /\ isGettingLocation' = FALSE
            /\ UNCHANGED << formData, authMode, pendingUserData >>
       ELSE UNCHANGED formVars
    /\ authFlows' = FlowEnds(f)
    /\ attempt' = "failed"
    /\ UNCHANGED << viewVars, mainVars >>
    /\ UNCHANGED chatVars

\* The session-creation request both flows issue: fetch resolves with the
\* backend's session id, resolves with a body that has none (fetch does not
\* reject on an HTTP error status), or rejects.
SessionIssued(f) ==
    \E out \in {"ok", "noid", "throw"} :
        /\ sessionsCreated' = IF out = "ok" THEN sessionsCreated + 1 ELSE sessionsCreated
        /\ authFlows' = FlowBecomes(f,
                          [f EXCEPT !.phase = "session", !.out = out,
                                    !.sid = IF out = "ok" THEN SessionIdOf(sessionsCreated + 1)
                                            ELSE Undefined])

\* authService.login after signInWithEmailAndPassword settles: getDoc of the
\* user's document.
LoginSignedIn(f) ==
    /\ f \in authFlows /\ f.kind = "login" /\ f.phase = "signIn"
    /\ IF f.out = "throw"
       THEN LoginFails(f)
       ELSE /\ \E out \in {"ok", "throw"} :
                 /\ out = "ok" => userDoc # Nil
                 /\ authFlows' = FlowBecomes(f, [f EXCEPT !.phase = "getDoc", !.out = out,
                                                          !.data = userDoc])
            /\ UNCHANGED << viewVars, attempt, formVars, mainVars >>
            /\ UNCHANGED chatVars
    /\ UNCHANGED << selectedSession, fbVars, cbReads, attemptCalls, sessionsCreated,
                    registered, locVars, reqVars >>
    /\ UNCHANGED cardVars

\* handleAuthSubmit after authService.login settles: a missing document or a
\* failed read has thrown; otherwise the session request is issued.
LoginGotDoc(f) ==
    /\ f \in authFlows /\ f.kind = "login" /\ f.phase = "getDoc"
    /\ IF f.out = "throw"
       THEN LoginFails(f) /\ UNCHANGED sessionsCreated
       ELSE /\ SessionIssued(f)
            /\ UNCHANGED << viewVars, attempt, formVars, mainVars >>
            /\ UNCHANGED chatVars
    /\ UNCHANGED << selectedSession, fbVars, cbReads, attemptCalls, registered,
                    locVars, reqVars >>
    /\ UNCHANGED cardVars

\* handleUserAuthenticated, called by the form with what the flow obtained.
HandleUserAuthenticated(profile, newSessionId, newUserData) ==
    /\ userData' = newUserData
    /\ userProfile' = profile
    /\ sessionId' = newSessionId
    /\ appState' = "chat"

\* Either flow after the session request settles: a rejected request is
\* caught; otherwise sessionData.session_id, present or not, is handed to
\* onUserAuthenticated.
SessionDone(f) ==
    /\ f \in authFlows /\ f.phase = "session"
    /\ UNCHANGED selectedSession
    /\ IF f.out = "throw"
       THEN IF f.kind = "login" THEN LoginFails(f) ELSE RegisterFails(f)
       ELSE /\ HandleUserAuthenticated(FormProfile(f.data), f.sid, f.data)
            /\ GateFollows(FlowEnds(f))
            /\ attempt' = IF f.out = "ok" THEN "ok" ELSE "failed"
            /\ MainFollows(TRUE)
    /\ UNCHANGED << fbVars, cbReads, attemptCalls, sessionsCreated,
                    registered, locVars, reqVars >>
    /\ UNCHANGED cardVars

\* The location modal's Cancel button.
CloseLocationModal ==
    /\ FormMounted /\ showLocationModal /\ ~isGettingLocation
    /\ showLocationModal' = FALSE
    /\ attempt' = None
    /\ UNCHANGED << formData, errors, authMode, authIsLoading, pendingUserData,
                    isGettingLocation >>
    /\ UNCHANGED << viewVars, selectedSession, fbVars, cbReads, authFlows,
                    attemptCalls, sessionsCreated, registered, mainVars, locVars,
                    reqVars >>
    /\ UNCHANGED << chatVars, cardVars >>

\* handleManualLocation up to its await; the modal's buttons are disabled
\* while isGettingLocation.  A blank location is refused; else
\* locationService.validateLocation is awaited, which finds the place (and
\* suggests its display name) or finds nothing; it never throws.
HandleManualLocation ==
    /\ FormMounted /\ showLocationModal /\ ~isGettingLocation
    /\ IF Trim(formData.location) = <<>>
       THEN /\ errors' = {"location"}
            /\ attempt' = "failed"
            /\ UNCHANGED << isGettingLocation, authFlows, attemptCalls >>
       ELSE /\ attemptCalls < MaxAttempts
            /\ attemptCalls' = attemptCalls + 1
            /\ isGettingLocation' = TRUE
            /\ attempt' = "running"
            /\ \E out \in {"ok", "invalid"} :
                 authFlows' = authFlows \cup
                     { AuthFlow(attemptCalls + 1, "register", "locate", out, Nil, Nil,
                                ClosureForm(formData), <<"s">>, TRUE) }
            /\ UNCHANGED errors
    /\ UNCHANGED << formData, authMode, authIsLoading, showLocationModal,
                    pendingUserData >>
    /\ UNCHANGED << viewVars, selectedSession, fbVars, cbReads, sessionsCreated,
                    registered, mainVars, locVars, reqVars >>
    /\ UNCHANGED << chatVars, cardVars >>

\* The text of 'Unknown city, Unknown country'.
UnknownPlace == <<"u">>

\* locationService.reverseGeocode, as `${city}, ${country}`: the city and the
\* country of the place found; the lookup's catch block, and a result
\* without them, give the 'Unknown' placeholders instead.
ReverseGeocode(found) == IF found THEN <<"g">> ELSE UnknownPlace

\* The outcomes of locationService.getCurrentLocation: the position is read
\* and the reverse lookup finds the place, the position is read and the
\* lookup fails or finds nothing, or the position cannot be read.
GpsOutcomes == { "found", "unknown", "throw" }

\* handleGPSLocation up to its await: locationService.getCurrentLocation
\* resolves with a city and a country or rejects.
HandleGPSLocation ==
    /\ FormMounted /\ showLocationModal /\ ~isGettingLocation
    /\ attemptCalls < MaxAttempts
    /\ attemptCalls' = attemptCalls + 1
    /\ isGettingLocation' = TRUE
    /\ attempt' = "running"
    /\ \E r \in GpsOutcomes :
         authFlows' = authFlows \cup
             { AuthFlow(attemptCalls + 1, "register", "locate",
                        IF r = "throw" THEN "throw" ELSE "ok", Nil, Nil,
                        ClosureForm(formData), ReverseGeocode(r # "unknown"), TRUE) }
    /\ UNCHANGED << formData, errors, authMode, authIsLoading, showLocationModal,
                    pendingUserData >>
    /\ UNCHANGED << viewVars, selectedSession, fbVars, cbReads, sessionsCreated,
                    registered, mainVars, locVars, reqVars >>
    /\ UNCHANGED << chatVars, cardVars >>

\* The location handler after its await: no place found or a rejected GPS
\* read sets the location error; otherwise handleLocationSubmit starts
\* authService.register, whose first call is createUserWithEmailAndPassword:
\* it succeeds only when the account does not exist, and signs the user in.
LocationResolved(f) ==
    /\ f \in authFlows /\ f.phase = "locate"
    /\ IF f.out # "ok"
       THEN /\ IF f.mounted
               THEN errors' = {"location"} /\ isGettingLocation' = FALSE
               ELSE UNCHANGED << errors, isGettingLocation >>
            /\ authFlows' = FlowEnds(f)
            /\ attempt' = "failed"
            /\ UNCHANGED << authIsLoading, fbAccount, fbUser, authEvents >>
       ELSE /\ IF f.mounted THEN authIsLoading' = TRUE
                            ELSE UNCHANGED authIsLoading
            /\ \E ok \in BOOLEAN :
                 /\ ok => ~fbAccount
                 /\ IF ok THEN fbAccount' = TRUE /\ SignedIn
                          ELSE UNCHANGED << fbAccount, fbUser, authEvents >>
                 /\ authFlows' = FlowBecomes(f, FlowStep(f, "create",
                                                         IF ok THEN "ok" ELSE "throw"))
            /\ UNCHANGED << errors, isGettingLocation, attempt >>
    /\ UNCHANGED << formData, authMode, showLocationModal, pendingUserData >>
    /\ UNCHANGED << viewVars, selectedSession, userDoc, cbReads, attemptCalls,
                    sessionsCreated, registered, mainVars, locVars, reqVars >>
    /\ UNCHANGED << chatVars, cardVars >>

\* authService.register after createUserWithEmailAndPassword: updateProfile.
RegisterCreated(f) ==
    /\ f \in authFlows /\ f.phase = "create"
    /\ IF f.out = "throw"
       THEN RegisterFails(f)
       ELSE /\ \E out \in {"ok", "throw"} :
                 authFlows' = FlowBecomes(f, FlowStep(f, "profile", out))
            /\ UNCHANGED << viewVars, attempt, formVars, mainVars >>
            /\ UNCHANGED chatVars
    /\ UNCHANGED << selectedSession, fbVars, cbReads, attemptCalls, sessionsCreated,
                    registered, locVars, reqVars >>
    /\ UNCHANGED cardVars

\* authService.register after updateProfile: setDoc of the user's document,
\* built from the form the handler holds and the location it was given.
RegisterProfiled(f) ==
    /\ f \in authFlows /\ f.phase = "profile"
    /\ IF f.out = "throw"
       THEN RegisterFails(f) /\ UNCHANGED << userDoc, registered >>
       ELSE /\ \E ok \in BOOLEAN :
                 LET doc == UserRecord(f.form.name, f.form.age, f.location) IN
                 /\ userDoc' = IF ok THEN doc ELSE userDoc
                 /\ registered' = IF ok THEN [name |-> f.form.name,
                                               age |-> f.form.age,
                                               location |-> f.location,
                                               relocated |-> FALSE]
                                 ELSE registered
                 /\ authFlows' = FlowBecomes(f,
                                    [f EXCEPT !.phase = "setDoc",
                                              !.out = IF ok THEN "ok" ELSE "throw",
                                              !.data = doc])
            /\ UNCHANGED << viewVars, attempt, formVars, mainVars >>
            /\ UNCHANGED chatVars
    /\ UNCHANGED << selectedSession, fbAccount, fbUser, authEvents, cbReads,
                    attemptCalls, sessionsCreated, locVars, reqVars >>
    /\ UNCHANGED cardVars

\* handleLocationSubmit after authService.register settles.
RegisterDocSet(f) ==
    /\ f \in authFlows /\ f.phase = "setDoc"
    /\ IF f.out = "throw"
       THEN RegisterFails(f) /\ UNCHANGED sessionsCreated
       ELSE /\ SessionIssued(f)
            /\ UNCHANGED << viewVars, attempt, formVars, mainVars >>
            /\ UNCHANGED chatVars
    /\ UNCHANGED << selectedSession, fbVars, cbReads, attemptCalls, registered,
                    locVars, reqVars >>
    /\ UNCHANGED cardVars

\* The onAuthStateChanged callback up to its await.  Without a user it
\* clears the account, the profile and the session id and shows the gate.
\* With one it awaits authService.getCurrentUserData, which resolves with the
\* document of auth.currentUser, or with null when there is no current user,
\* no document, or the read fails.
AuthCallbackStart ==
    /\ authEvents # <<>>
    /\ authEvents' = Tail(authEvents)
    /\ IF Head(authEvents)
       THEN /\ IF fbUser
               THEN \E res \in {userDoc, Nil} : cbReads' = Append(cbReads, res)
               ELSE cbReads' = Append(cbReads, Nil)
            /\ UNCHANGED viewVars
       ELSE /\ userData' = Nil /\ userProfile' = Nil /\ sessionId' = Nil
            /\ appState' = "auth"
            /\ UNCHANGED cbReads
    /\ GateFollows(authFlows)
    /\ UNCHANGED selectedSession
    /\ MainFollows(FALSE)
    /\ UNCHANGED << fbAccount, fbUser, userDoc, attempt,
                    attemptCalls, sessionsCreated, registered, locVars, reqVars >>
    /\ UNCHANGED cardVars

\* The callback after getCurrentUserData settles: with user data it sets the
\* account and the profile and shows the chat; with null it does nothing.
AuthCallbackDone(i) ==
    /\ i \in 1..Len(cbReads)
    /\ cbReads' = SubSeq(cbReads, 1, i - 1) \o SubSeq(cbReads, i + 1, Len(cbReads))
    /\ IF cbReads[i] # Nil
       THEN /\ userData' = cbReads[i]
            /\ userProfile' = CallbackProfile(cbReads[i])
            /\ appState' = "chat"
            /\ UNCHANGED sessionId
       ELSE UNCHANGED viewVars
    /\ GateFollows(authFlows)
    /\ UNCHANGED selectedSession
    /\ MainFollows(cbReads[i] # Nil)
    /\ UNCHANGED << fbVars, attempt, attemptCalls, sessionsCreated,
                    registered, locVars, reqVars >>
    /\ UNCHANGED cardVars

\* handleLogout up to its await, from the header's Logout button:
\* authService.logout awaits signOut.
HandleLogout ==
    /\ HeaderRendered
    /\ logoutCalls < MaxLogouts
    /\ logoutCalls' = logoutCalls + 1
    /\ \E ok \in BOOLEAN :
         /\ IF ok THEN SignedOut ELSE UNCHANGED << fbUser, authEvents >>
         /\ logouts' = logouts \cup {[id |-> logoutCalls + 1, ok |-> ok]}
    /\ UNCHANGED << viewVars, selectedSession, fbAccount, userDoc, cbReads, formVars,
                    authFlows, attempt, attemptCalls, sessionsCreated, registered,
                    mainVars, locVars, newChats, newChatCalls, viewReqs, viewCalls >>
    /\ UNCHANGED << chatVars, cardVars >>

\* handleLogout after authService.logout settles: the state is cleared in the
\* try block, after the await; the catch block logs the error.
LogoutReturned(l) ==
    /\ l \in logouts
    /\ logouts' = logouts \ {l}
    /\ IF l.ok
       THEN /\ userData' = Nil /\ userProfile' = Nil /\ sessionId' = Nil
            /\ selectedSession' = Nil
            /\ appState' = "auth"
       ELSE UNCHANGED << viewVars, selectedSession >>
    /\ GateFollows(authFlows)
    /\ MainFollows(FALSE)
    /\ UNCHANGED << fbVars, cbReads, attempt, attemptCalls, sessionsCreated,
                    registered, locVars, logoutCalls, newChats, newChatCalls,
                    viewReqs, viewCalls >>
    /\ UNCHANGED cardVars

\* handleViewHistory: the header's History button, rendered in the 'chat'
\* state.  ChatInterface starts its exit animation.
HandleViewHistory ==
    /\ appState = "chat"
    /\ appState' = "history"
    /\ UNCHANGED << userData, userProfile, sessionId >>
    /\ UNCHANGED selectedSession
    /\ MainFollows(FALSE)
    /\ UNCHANGED << fbVars, cbReads, formVars, authFlows, attempt,
                    attemptCalls, sessionsCreated, registered, locVars, reqVars >>
    /\ UNCHANGED cardVars

\* handleBackToChat: the back buttons of ChatHistory, in its list and in its
\* session view.
HandleBackToChat ==
    /\ ChatHistoryMounted
    /\ selectedSession' = Nil
    /\ appState' = "chat"
    /\ UNCHANGED << userData, userProfile, sessionId >>
    /\ MainFollows(FALSE)
    /\ UNCHANGED << fbVars, cbReads, formVars, authFlows, attempt, attemptCalls,
                    sessionsCreated, registered, locVars, reqVars >>
    /\ UNCHANGED cardVars

\* A session as GET /api/chat-session/{id} returns it for the history list.
HistorySession == [id |-> "h1"]

\* App's handleViewSession: the session view of ChatHistory shows the session
\* it is given, or the list when given null.
HandleViewSession(session) == selectedSession' = session

\* The back arrow of the session view: onViewSession(null).
CloseSessionView ==
    /\ ChatHistoryMounted /\ historySelected # Nil
    /\ HandleViewSession(Nil)
    /\ UNCHANGED viewVars
    /\ MainFollows(FALSE)
    /\ UNCHANGED << fbVars, cbReads, formVars, authFlows, attempt,
                    attemptCalls, sessionsCreated, registered, locVars,
                    reqVars >>
    /\ UNCHANGED cardVars

\* ChatHistory's handleViewSession up to its await: the View button of a
\* session of the list, which is rendered while no session is selected.  The
\* request for the session resolves or rejects.
ViewSessionRequested ==
    /\ ChatHistoryMounted /\ historySelected = Nil
    /\ viewCalls < MaxViews
    /\ viewCalls' = viewCalls + 1
    /\ \E ok \in BOOLEAN : viewReqs' = viewReqs \cup {[id |-> viewCalls + 1, ok |-> ok]}
    /\ UNCHANGED << viewVars, selectedSession, fbVars, cbReads, formVars, authFlows,
                    attempt, attemptCalls, sessionsCreated, registered, mainVars,
                    locVars, logouts, logoutCalls, newChats, newChatCalls >>
    /\ UNCHANGED << chatVars, cardVars >>

\* ChatHistory's handleViewSession after its await: the session is handed to
\* App's handleViewSession, wherever the application is by then; the catch
\* block logs the error.
ViewSessionLoaded(v) ==
    /\ v \in viewReqs
    /\ viewReqs' = viewReqs \ {v}
    /\ IF v.ok THEN HandleViewSession(HistorySession) ELSE UNCHANGED selectedSession
    /\ UNCHANGED viewVars
    /\ MainFollows(FALSE)
    /\ UNCHANGED << fbVars, cbReads, formVars, authFlows, attempt,
                    attemptCalls, sessionsCreated, registered, locVars,
                    logouts, logoutCalls, newChats, newChatCalls, viewCalls >>
    /\ UNCHANGED cardVars

\* handleNewChat up to its request: the New Chat button is in the header in
\* the 'chat' state; without a profile or an account record the handler
\* returns.  The backend creates the session when it processes the request;
\* ok is whether its response carries a session_id.
HandleNewChat ==
    /\ appState = "chat"
    /\ userProfile # Nil /\ userData # Nil
    /\ newChatCalls < MaxNewChats
    /\ newChatCalls' = newChatCalls + 1
    /\ \E ok \in BOOLEAN :
          /\ newChats' = newChats \cup
                 { [id |-> newChatCalls + 1, ok |-> ok,
                    session_id |-> SessionIdOf(sessionsCreated + 1)] }
          /\ sessionsCreated' = IF ok THEN sessionsCreated + 1 ELSE sessionsCreated
    /\ UNCHANGED << viewVars, selectedSession, fbVars, cbReads, formVars, authFlows,
                    attempt, attemptCalls, registered, mainVars, locVars, logouts,
                    logoutCalls, viewReqs, viewCalls >>
    /\ UNCHANGED << chatVars, cardVars >>

\* handleNewChat from the register-user response on, wherever the
\* application is by then: with a session_id the App takes the new session,
\* closes the session view and shows the chat; otherwise the catch block
\* alerts and nothing changes.
NewChatDone(r) ==
    /\ r \in newChats
    /\ newChats' = newChats \ {r}
    /\ IF r.ok
       THEN /\ sessionId' = r.session_id
            /\ selectedSession' = Nil
            /\ appState' = "chat"
            /\ UNCHANGED << userData, userProfile >>
       ELSE UNCHANGED << viewVars, selectedSession >>
    /\ GateFollows(authFlows)
    /\ MainFollows(FALSE)
    /\ UNCHANGED << fbVars, cbReads, attempt, attemptCalls, sessionsCreated,
                    registered, locVars, logouts, logoutCalls, newChatCalls,
                    viewReqs, viewCalls >>
    /\ UNCHANGED cardVars

\* The exit animation (0.3 s) of the child that App renders no more has
\* ended: the child unmounts, and the child App renders now, which has been
\* waiting, mounts.
ExitComplete ==
    /\ HeaderRendered
    /\ mainView # "none" /\ mainView # MainChild
    /\ mainView' = MainChild
    /\ chatUserStale' = FALSE
    /\ historySelected' = (IF MainChild = "history" THEN selectedSession ELSE Nil)
    /\ IF MainChild = "chat"
       THEN /\ chatSid' = sessionId
            /\ ChatMounts(sessionId)
       ELSE /\ chatSid' = chatSid
            /\ IF mainView = "chat" THEN ChatUnmounts ELSE UNCHANGED chatVars
    /\ UNCHANGED << viewVars, selectedSession, fbVars, cbReads, formVars, authFlows,
                    attempt, attemptCalls, sessionsCreated, registered, locVars,
                    reqVars >>
    /\ UNCHANGED cardVars

\* ------------------------------------------------ App: location update
\* The location modal of App is rendered under the header while
\* showLocationModal is set.
AppLocationModalRendered == HeaderRendered /\ appShowLocationModal

\* The header's Change button.
OpenAppLocationModal ==
    /\ HeaderRendered /\ ~appShowLocationModal
    /\ appShowLocationModal' = TRUE
    /\ UNCHANGED << isUpdatingLocation, locReq, locCalls >>
    /\ UNCHANGED << viewVars, selectedSession, fbVars, cbReads, formVars, authFlows,
                    attempt, attemptCalls, sessionsCreated, registered, mainVars,
                    reqVars >>
    /\ UNCHANGED << chatVars, cardVars >>

\* The Cancel button of App's location modal, disabled while
\* isUpdatingLocation.
CloseAppLocationModal ==
    /\ AppLocationModalRendered /\ ~isUpdatingLocation
    /\ appShowLocationModal' = FALSE
    /\ UNCHANGED << isUpdatingLocation, locReq, locCalls >>
    /\ UNCHANGED << viewVars, selectedSession, fbVars, cbReads, formVars, authFlows,
                    attempt, attemptCalls, sessionsCreated, registered, mainVars,
                    reqVars >>
    /\ UNCHANGED << chatVars, cardVars >>

\* The call of a location handler of App that is under way: the call it
\* awaits and its outcome, the location string, and whether the render the
\* handler closes over had an account and a profile.
LocationCall(phase, out, location) ==
    [phase |-> phase, out |-> out, location |-> location,
     hasUser |-> (userData # Nil /\ userProfile # Nil)]

\* App's handleGPSLocation up to its await; the modal's buttons are disabled
\* while isUpdatingLocation.
AppHandleGPSLocation ==
    /\ AppLocationModalRendered /\ ~isUpdatingLocation
    /\ locCalls < MaxLocationUpdates
    /\ locCalls' = locCalls + 1
    /\ isUpdatingLocation' = TRUE
    /\ \E r \in GpsOutcomes :
         locReq' = LocationCall("locate", IF r = "throw" THEN "throw" ELSE "ok",
                                ReverseGeocode(r # "unknown"))
    /\ UNCHANGED appShowLocationModal
    /\ UNCHANGED << viewVars, selectedSession, fbVars, cbReads, formVars, authFlows,
                    attempt, attemptCalls, sessionsCreated, registered, mainVars,
                    reqVars >>
    /\ UNCHANGED << chatVars, cardVars >>

\* The texts typed into the input of App's location modal.
LocationTexts == { <<" ">>, <<"x">> }

\* App's handleManualLocation up to its await: a blank location is refused
\* with an alert; else locationService.validateLocation is awaited.
AppHandleManualLocation(location) ==
    /\ AppLocationModalRendered /\ ~isUpdatingLocation
    /\ IF Trim(location) = <<>>
       THEN UNCHANGED << isUpdatingLocation, locReq, locCalls >>
       ELSE /\ locCalls < MaxLocationUpdates
            /\ locCalls' = locCalls + 1
            /\ isUpdatingLocation' = TRUE
            /\ \E out \in {"ok", "invalid"} :
                 locReq' = LocationCall("locate", out, <<"s">>)
    /\ UNCHANGED appShowLocationModal
    /\ UNCHANGED << viewVars, selectedSession, fbVars, cbReads, formVars, authFlows,
                    attempt, attemptCalls, sessionsCreated, registered, mainVars,
                    reqVars >>
    /\ UNCHANGED << chatVars, cardVars >>

\* App's location handler after its await.  Without a place the handler
\* alerts and its finally block clears isUpdatingLocation.  With one it calls
\* handleLocationUpdate, which returns when the render it closes over had no
\* account or no profile, and else awaits authService.updateCurrentLocation:
\* updateDoc of the user's document, which throws without a current user or
\* without the document.
AppLocationResolved ==
    /\ locReq # Nil /\ locReq.phase = "locate"
    /\ IF locReq.out # "ok" \/ ~locReq.hasUser
       THEN /\ locReq' = Nil
            /\ isUpdatingLocation' = FALSE
            /\ UNCHANGED << userDoc, registered >>
       ELSE /\ isUpdatingLocation' = TRUE
            /\ \E ok \in BOOLEAN :
                 /\ ok => (fbUser /\ userDoc # Nil)
                 /\ userDoc' = IF ok
                               THEN [userDoc EXCEPT !.currentLocation = locReq.location]
                               ELSE userDoc
                 /\ registered' = IF ok /\ registered # Nil
                                  THEN [registered EXCEPT !.relocated = TRUE]
                                  ELSE registered
                 /\ locReq' = [locReq EXCEPT !.phase = "update",
                                             !.out = IF ok THEN "ok" ELSE "throw"]
    /\ UNCHANGED << appShowLocationModal, locCalls >>
    /\ UNCHANGED << viewVars, selectedSession, fbAccount, fbUser, authEvents, cbReads,
                    formVars, authFlows, attempt, attemptCalls, sessionsCreated,
                    mainVars, reqVars >>
    /\ UNCHANGED << chatVars, cardVars >>

\* handleLocationUpdate after updateCurrentLocation settles: the account and
\* the profile App holds by then take the new location and the modal closes;
\* a failed update is logged.  The finally blocks clear isUpdatingLocation.
HandleLocationUpdate ==
    /\ locReq # Nil /\ locReq.phase = "update"
    /\ locReq' = Nil
    /\ isUpdatingLocation' = FALSE
    /\ IF locReq.out = "ok"
       THEN /\ userData' = IF userData # Nil
                           THEN [userData EXCEPT !.currentLocation = locReq.location]
                           ELSE Nil
            /\ userProfile' = IF userProfile # Nil
                              THEN [userProfile EXCEPT !.location = Loc(locReq.location)]
                              ELSE Nil
            /\ appShowLocationModal' = FALSE
       ELSE UNCHANGED << userData, userProfile, appShowLocationModal >>
    /\ UNCHANGED << appState, sessionId, locCalls >>
    /\ UNCHANGED selectedSession
    /\ MainFollows(locReq.out = "ok")
    /\ UNCHANGED << fbVars, cbReads, formVars, authFlows, attempt,
                    attemptCalls, sessionsCreated, registered, reqVars >>
    /\ UNCHANGED cardVars

NextApp ==
    \/ \E f \in Fields : \E v \in FieldValues[f] : HandleInputChange(f, v)
    \/ \E m \in AuthModes : SetAuthMode(m)
    \/ HandleAuthSubmit
    \/ \E f \in authFlows : LoginSignedIn(f)
    \/ \E f \in authFlows : LoginGotDoc(f)
    \/ \E f \in authFlows : SessionDone(f)
    \/ CloseLocationModal
    \/ HandleManualLocation
    \/ HandleGPSLocation
    \/ \E f \in authFlows : LocationResolved(f)
    \/ \E f \in authFlows : RegisterCreated(f)
    \/ \E f \in authFlows : RegisterProfiled(f)
    \/ \E f \in authFlows : RegisterDocSet(f)
    \/ AuthCallbackStart
    \/ \E i \in 1..Len(cbReads) : AuthCallbackDone(i)
    \/ HandleLogout
    \/ \E l \in logouts : LogoutReturned(l)
    \/ HandleViewHistory
    \/ HandleBackToChat
    \/ CloseSessionView
    \/ ViewSessionRequested
    \/ \E v \in viewReqs : ViewSessionLoaded(v)
    \/ HandleNewChat
    \/ \E r \in newChats : NewChatDone(r)
    \/ OpenAppLocationModal
    \/ CloseAppLocationModal
    \/ AppHandleGPSLocation
    \/ \E t \in LocationTexts : AppHandleManualLocation(t)
    \/ AppLocationResolved
    \/ HandleLocationUpdate
    \/ ExitComplete

\* ---------------------------------------------------------------- initial
\* The component has mounted: the load effect has issued its request.
ChatMounted(load) ==
    /\ messages = <<>> /\ inputMessage = <<>>
    /\ isLoading = FALSE /\ isTyping = FALSE /\ isChatEnded = FALSE
    /\ chatReq = Nil /\ botTimers = <<>>
    /\ srvMessages = <<>> /\ srvActive = TRUE
    /\ loads = {load}
    /\ ends = {} /\ saveTimer = Nil /\ saves = {}
    /\ sendCalls = 0 /\ endCalls = 0 /\ saveCalls = 0
    /\ lastSend = None /\ fallbackCalls = 0 /\ unhandled = FALSE
    /\ dbDoc = Nil /\ newDocs = <<>>

\* Each specification starts its own component in every initial state it has
\* and the other components in one.
\* The load effect's request found the new session: no messages, active.
MountLoads ==
    { [id |-> 1, origin |-> "mount", afterEnded |-> FALSE, ok |-> TRUE,
       data |-> [messages |-> <<>>, is_active |-> TRUE]],
      [id |-> 1, origin |-> "mount", afterEnded |-> FALSE, ok |-> FALSE, data |-> Nil] }

\* App has mounted and subscribed to onAuthStateChanged, which notifies the
\* subscriber of the user the browser has kept signed in, or of none.  The
\* account and its document may exist from an earlier visit.
AppMounted(account, signedIn, doc) ==
    /\ appState = "loading"
    /\ userData = Nil /\ userProfile = Nil /\ sessionId = Nil /\ selectedSession = Nil
    /\ fbAccount = account /\ fbUser = signedIn /\ userDoc = doc
    /\ authEvents = << signedIn >> /\ cbReads = <<>>
    /\ formData = InitialForm /\ errors = {} /\ authMode = "login"
    /\ authIsLoading = FALSE /\ showLocationModal = FALSE
    /\ pendingUserData = FALSE /\ isGettingLocation = FALSE
    /\ authFlows = {} /\ attempt = None /\ logouts = {}
    /\ attemptCalls = 0 /\ logoutCalls = 0 /\ sessionsCreated = 0
    /\ registered = Nil /\ newChats = {} /\ newChatCalls = 0
    /\ appShowLocationModal = FALSE /\ isUpdatingLocation = FALSE
    /\ locReq = Nil /\ locCalls = 0 /\ viewReqs = {} /\ viewCalls = 0
    /\ mainView = "none" /\ chatSid = Nil
    /\ chatUserStale = FALSE /\ historySelected = Nil

\* App renders ChatInterface: a signed-in user in the 'chat' state with the
\* account, the profile and the session id a login produced.
AppInChat ==
    /\ appState = "chat"
    /\ userData = StoredUser /\ userProfile = FormProfile(StoredUser)
    /\ sessionId = SessionIdOf(1) /\ selectedSession = Nil
    /\ fbAccount = TRUE /\ fbUser = TRUE /\ userDoc = StoredUser
    /\ authEvents = <<>> /\ cbReads = <<>>
    /\ formData = InitialForm /\ errors = {} /\ authMode = "login"
    /\ authIsLoading = FALSE /\ showLocationModal = FALSE
    /\ pendingUserData = FALSE /\ isGettingLocation = FALSE
    /\ authFlows = {} /\ attempt = None /\ logouts = {}
    /\ attemptCalls = 0 /\ logoutCalls = 0 /\ sessionsCreated = 1
    /\ registered = Nil /\ newChats = {} /\ newChatCalls = 0
    /\ appShowLocationModal = FALSE /\ isUpdatingLocation = FALSE
    /\ locReq = Nil /\ locCalls = 0 /\ viewReqs = {} /\ viewCalls = 0
    /\ mainView = "chat" /\ chatSid = SessionIdOf(1)
    /\ chatUserStale = FALSE /\ historySelected = Nil

InitChat ==
    /\ \E l \in MountLoads : ChatMounted(l)
    /\ CardMounted(TRUE)
    /\ AppInChat

InitCard ==
    /\ \E uid \in BOOLEAN : CardMounted(uid)
    /\ ChatMounted([id |-> 1, origin |-> "mount", afterEnded |-> FALSE, ok |-> FALSE,
                    data |-> Nil])
    /\ AppInChat

\* The account exists or not; its document exists only if it does; the user
\* is signed in only if it does.
InitApp ==
    /\ \E account \in BOOLEAN, signedIn \in BOOLEAN, doc \in {Nil, StoredUser} :
         /\ signedIn => account
         /\ doc # Nil => account
         /\ AppMounted(account, signedIn, doc)
    /\ ChatMounted([id |-> 1, origin |-> "mount", afterEnded |-> FALSE, ok |-> FALSE,
                    data |-> Nil])
    /\ CardMounted(TRUE)

NextChat ==
    \/ \E t \in InputTexts : SetInput(t)
    \/ SendMessage
    \/ ChatRespond
    \/ BotTimerFire
    \/ \E l \in loads : LoadRespond(l)
    \/ EndChat
    \/ \E e \in ends : EndRespond(e)
    \/ \E e \in ends : EndUpdateRead(e)
    \/ \E e \in ends : EndUpdateDone(e)

\* The chat view with its persistence: the transcript controller, the
\* debounce timer firing and the reads and writes of updateChatSession
\* settling one by one.
NextShadow ==
    \/ \E t \in InputTexts : SetInput(t)
    \/ sendCalls < MaxShadowSends /\ SendMessage
    \/ ChatRespond
    \/ BotTimerFire
    \/ \E l \in loads : LoadRespond(l)
    \/ EndChat
    \/ \E e \in ends : EndRespond(e)
    \/ \E e \in ends : EndUpdateRead(e)
    \/ \E e \in ends : EndUpdateDone(e)
    \/ SaveTimerFire
    \/ \E s \in saves : SaveRead(s)
    \/ \E s \in saves : SaveDone(s)
    \/ \E s \in saves : SaveThrows(s)

SpecChat == InitChat /\ [][NextChat]_vars

SpecShadow == InitChat /\ [][NextShadow]_vars

\* The chat view where every chat request is answered or fails in the end
\* and every typing-delay timer that was started fires.
SpecChatLive ==
    InitChat /\ [][NextChat]_vars /\ WF_vars(ChatRespond) /\ WF_vars(BotTimerFire)

SpecCard == InitCard /\ [][NextCard]_vars

\* The card with long texts typed or pasted into the prompt.
NextPrompt ==
    \/ NextCard
    \/ \E t \in InsertedTexts : InsertFeedback(t)

SpecPrompt == InitCard /\ [][NextPrompt]_vars

\* The chat view of a signed-in user with a card under a bot message.  The
\* card's prompt never opens there (see RecommendationsCardUid), so of the
\* card's handlers only handlePreference can run.
InitChatCard ==
    /\ \E l \in MountLoads : ChatMounted(l)
    /\ CardMounted(RecommendationsCardUid(TRUE))
    /\ AppInChat

NextChatCard ==
    \/ NextChat
    \/ CardRendered /\ \E p \in Preferences : HandlePreference(p)

SpecChatCard == InitChatCard /\ [][NextChatCard]_vars

\* The whole application: every handler of App and of the form.
SpecApp == InitApp /\ [][NextApp]_vars

\* The application up to the gate and through it: startup, the form and the
\* flow its handlers start (one in a behaviour), and logout.
NextGate ==
    \/ \E f \in Fields : \E v \in FieldValues[f] : HandleInputChange(f, v)
    \/ \E m \in AuthModes : SetAuthMode(m)
    \/ attemptCalls < MaxGateAttempts /\ HandleAuthSubmit
    \/ \E f \in authFlows : LoginSignedIn(f)
    \/ \E f \in authFlows : LoginGotDoc(f)
    \/ \E f \in authFlows : SessionDone(f)
    \/ CloseLocationModal
    \/ attemptCalls < MaxGateAttempts /\ HandleManualLocation
    \/ attemptCalls < MaxGateAttempts /\ HandleGPSLocation
    \/ \E f \in authFlows : LocationResolved(f)
    \/ \E f \in authFlows : RegisterCreated(f)
    \/ \E f \in authFlows : RegisterProfiled(f)
    \/ \E f \in authFlows : RegisterDocSet(f)
    \/ AuthCallbackStart
    \/ \E i \in 1..Len(cbReads) : AuthCallbackDone(i)
    \/ HandleLogout
    \/ \E l \in logouts : LogoutReturned(l)

SpecGate == InitApp /\ [][NextGate]_vars

\* A visitor without an account at the gate, on the Sign Up tab with the form
\* filled in: App's callback has shown the gate, the tab was chosen and the
\* fields were typed.
InitRoundTrip ==
    /\ appState = "auth"
    /\ userData = Nil /\ userProfile = Nil /\ sessionId = Nil /\ selectedSession = Nil
    /\ fbAccount = FALSE /\ fbUser = FALSE /\ userDoc = Nil
    /\ authEvents = <<>> /\ cbReads = <<>>
    /\ \E name \in FieldValues["name"] \ {<<>>}, age \in {13, 25, 120} :
         formData = [email |-> GoodEmail, password |-> GoodPassword, name |-> name,
                     age |-> age, location |-> <<>>]
    /\ errors = {} /\ authMode = "register"
    /\ authIsLoading = FALSE /\ showLocationModal = FALSE
    /\ pendingUserData = FALSE /\ isGettingLocation = FALSE
    /\ authFlows = {} /\ attempt = None /\ logouts = {}
    /\ attemptCalls = 0 /\ logoutCalls = 0 /\ sessionsCreated = 0
    /\ registered = Nil /\ newChats = {} /\ newChatCalls = 0
    /\ appShowLocationModal = FALSE /\ isUpdatingLocation = FALSE
    /\ locReq = Nil /\ locCalls = 0 /\ viewReqs = {} /\ viewCalls = 0
    /\ mainView = "none" /\ chatSid = Nil
    /\ chatUserStale = FALSE /\ historySelected = Nil
    /\ ChatMounted([id |-> 1, origin |-> "mount", afterEnded |-> FALSE, ok |-> FALSE,
                    data |-> Nil])
    /\ CardMounted(TRUE)

\* The gate of a visitor who registers, logs out and logs in again: the
\* credentials and the location are typed, the tabs are switched, and the
\* flows of both handlers run, one beside the other where the form allows it.
NextRoundTrip ==
    \/ \E f \in {"email", "password", "location"} :
          \E v \in FieldValues[f] \ {<<>>} : HandleInputChange(f, v)
    \/ \E m \in AuthModes : SetAuthMode(m)
    \/ HandleAuthSubmit
    \/ \E f \in authFlows : LoginSignedIn(f)
    \/ \E f \in authFlows : LoginGotDoc(f)
    \/ \E f \in authFlows : SessionDone(f)
    \/ CloseLocationModal
    \/ HandleManualLocation
    \/ HandleGPSLocation
    \/ \E f \in authFlows : LocationResolved(f)
    \/ \E f \in authFlows : RegisterCreated(f)
    \/ \E f \in authFlows : RegisterProfiled(f)
    \/ \E f \in authFlows : RegisterDocSet(f)
    \/ AuthCallbackStart
    \/ \E i \in 1..Len(cbReads) : AuthCallbackDone(i)
    \/ HandleLogout
    \/ \E l \in logouts : LogoutReturned(l)
    \/ ExitComplete

SpecRoundTrip == InitRoundTrip /\ [][NextRoundTrip]_vars

\* The application behind the gate: startup, and the header and the history
\* view of a signed-in user.
NextHeader ==
    \/ AuthCallbackStart
    \/ \E i \in 1..Len(cbReads) : AuthCallbackDone(i)
    \/ HandleLogout
    \/ \E l \in logouts : LogoutReturned(l)
    \/ HandleViewHistory
    \/ HandleBackToChat
    \/ CloseSessionView
    \/ ViewSessionRequested
    \/ \E v \in viewReqs : ViewSessionLoaded(v)
    \/ HandleNewChat
    \/ \E r \in newChats : NewChatDone(r)
    \/ OpenAppLocationModal
    \/ CloseAppLocationModal
    \/ AppHandleGPSLocation
    \/ \E t \in LocationTexts : AppHandleManualLocation(t)
    \/ AppLocationResolved
    \/ HandleLocationUpdate
    \/ ExitComplete

SpecHeader == InitApp /\ [][NextHeader]_vars

\* The form at the gate, filled in: every combination of these values can be
\* typed into the fields before the form is submitted.
FormInputs ==
    [email : { <<>>, <<" ">>, GoodEmail, <<"a", "@", "b">>, <<"a", "@", ".", "c">>,
               <<" ", "@", "b", ".", "c">> },
     password : { <<>>, <<"p", "p", "p", "p", "p">>, GoodPassword,
                  <<" ", " ", " ", " ", " ", " ">> },
     name : { <<>>, <<" ">>, <<"n">> },
     age : { 12, 13, 120, 121 },
     location : { <<>> }]

\* A signed-out visitor at the gate, the account registered.
InitForm ==
    /\ appState = "auth"
    /\ userData = Nil /\ userProfile = Nil /\ sessionId = Nil /\ selectedSession = Nil
    /\ fbAccount = TRUE /\ fbUser = FALSE /\ userDoc = StoredUser
    /\ authEvents = <<>> /\ cbReads = <<>>
    /\ formData \in FormInputs /\ authMode \in AuthModes
    /\ errors = {}
    /\ authIsLoading = FALSE /\ showLocationModal = FALSE
    /\ pendingUserData = FALSE /\ isGettingLocation = FALSE
    /\ authFlows = {} /\ attempt = None /\ logouts = {}
    /\ attemptCalls = 0 /\ logoutCalls = 0 /\ sessionsCreated = 0
    /\ registered = Nil /\ newChats = {} /\ newChatCalls = 0
    /\ appShowLocationModal = FALSE /\ isUpdatingLocation = FALSE
    /\ locReq = Nil /\ locCalls = 0 /\ viewReqs = {} /\ viewCalls = 0
    /\ mainView = "none" /\ chatSid = Nil
    /\ chatUserStale = FALSE /\ historySelected = Nil
    /\ ChatMounted([id |-> 1, origin |-> "mount", afterEnded |-> FALSE, ok |-> FALSE,
                    data |-> Nil])
    /\ CardMounted(TRUE)

\* Submitting the form in either mode, and what a submission that passed
\* validation starts.
NextForm ==
    \/ \E m \in AuthModes : SetAuthMode(m)
    \/ HandleAuthSubmit
    \/ \E f \in authFlows : LoginSignedIn(f)
    \/ CloseLocationModal

SpecForm == InitForm /\ [][NextForm]_vars

\* The chat view with the ways out of it: the transcript controller and the
\* debounced save while ChatInterface is mounted (also during its exit
\* animation), the History and Logout buttons of the header, and database
\* writes that succeed.
NextNav ==
    \/ ChatInterfaceMounted /\ \E t \in InputTexts : SetInput(t)
    \/ ChatInterfaceMounted /\ SendMessage
    \/ ChatInterfaceMounted /\ ChatRespond
    \/ ChatInterfaceMounted /\ BotTimerFire
    \/ ChatInterfaceMounted /\ \E l \in loads : LoadRespond(l)
    \/ ChatInterfaceMounted /\ SaveTimerFire
    \/ \E s \in saves : SaveRead(s)
    \/ \E s \in saves : SaveDone(s)
    \/ HandleViewHistory
    \/ ExitComplete
    \/ HandleLogout
    \/ \E l \in logouts : LogoutReturned(l)

SpecNav == InitChat /\ [][NextNav]_vars

\* The chat view with the New Chat button of the App's header.
NextNewChat ==
    \/ \E t \in InputTexts : SetInput(t)
    \/ SendMessage
    \/ ChatRespond
    \/ BotTimerFire
    \/ \E l \in loads : LoadRespond(l)
    \/ SaveTimerFire
    \/ \E s \in saves : SaveRead(s)
    \/ \E s \in saves : SaveDone(s)
    \/ HandleNewChat
    \/ \E r \in newChats : NewChatDone(r)

SpecNewChat == InitChat /\ [][NextNewChat]_vars

\* ======================================================= claims, SpecChat

\* C1: a send's user message is followed in the transcript by that send's bot
\* message and by nothing else: every user message is either the last entry
\* (its reply is still pending) or directly followed by the bot message the
\* backend produced for it.
C1_SendPairNotInterleaved ==
    \A i \in 1..Len(messages) :
        messages[i].sender = "user" =>
            \/ i = Len(messages)
            \/ /\ messages[i + 1].sender = "bot"
               /\ messages[i + 1].id = messages[i].id + 1

\* C2: a sendMessage call made while the text is blank, a send is loading or
\* the chat has ended posts nothing and changes neither the transcript nor the
\* input text nor the loading and typing flags.
C2_RejectedSendIsNoOp ==
    [][ (SendMessage /\ (Trim(inputMessage) = <<>> \/ isLoading \/ isChatEnded))
          => UNCHANGED << messages, inputMessage, isLoading, isTyping, isChatEnded,
                          chatReq, botTimers, sendCalls, srvMessages >> ]_vars

\* C2 witness: sendMessage was called with a non-blank text in an ended chat
\* and returned early.
C2_Witness == lastSend = "ended" /\ isChatEnded /\ Trim(inputMessage) # <<>>

\* C3: the transcript is append-only: every step leaves the previous message
\* list as a prefix of the new one.
C3_TranscriptAppendOnly == [][ IsPrefix(messages, messages') ]_vars

\* C9: an endChat call that finds the session already ended never lets an
\* exception escape, never clears the ended flag (and sets it when its request
\* succeeds), leaves the transcript alone until its reload arrives, and the
\* reload leaves the chat ended with at most one closing message.
C9_EndChatIdempotent ==
    [][ /\ \A e \in ends :
             (e.afterEnded /\ (EndRespond(e) \/ EndUpdateRead(e) \/ EndUpdateDone(e))) =>
                 /\ isChatEnded' = (isChatEnded \/ (e.phase = "post" /\ e.ok))
                 /\ messages' = messages
                 /\ ~unhandled'
        /\ \A l \in loads :
             (l.origin = "end" /\ l.afterEnded /\ LoadRespond(l)) =>
                 /\ ~unhandled'
                 /\ IF l.ok
                    THEN isChatEnded' /\ ClosingCount(messages') <= 1
                    ELSE isChatEnded' = isChatEnded /\ messages' = messages
      ]_vars

\* C9 witness: the chat shows the ended session with its closing message, and
\* a second endChat, which found the session already ended, has posted, updated
\* the database and issued its reload.
C9_Witness ==
    /\ isChatEnded /\ ClosingCount(messages) = 1
    /\ \E l \in loads : l.origin = "end" /\ l.afterEnded /\ l.ok

\* C10: once the ended flag is true no step sets it back to false.
C10_EndedFlagOneWay == [][ isChatEnded => isChatEnded' ]_vars

\* C19 (as stated): when the end-of-session request succeeds, endChat marks
\* the session ended locally and, once the database status update has
\* settled (also when it failed), a reload of the transcript is under way;
\* when the request fails, the ended flag and the transcript are unchanged.
C19_EndMarksThenReloads ==
    [][ \A e \in ends :
          /\ (EndRespond(e) /\ e.ok) => isChatEnded'
          /\ (EndRespond(e) /\ ~e.ok) => UNCHANGED << isChatEnded, messages >>
          /\ (EndUpdateDone(e) \/ (EndUpdateRead(e) /\ ends' = ends \ {e}))
               => \E l \in loads' : l.origin = "end" ]_vars

\* C28: after an accepted send the sending flag and the typing indicator are
\* both cleared in the end, whether the chat request succeeds or fails; the
\* sending flag is up only while the request is awaited, so a later send is
\* not rejected for ever; and a failed chat request leaves the transcript as
\* it is.
C28_SendFlagsCleared ==
    /\ [](isLoading <=> chatReq # Nil)
    /\ isLoading ~> ~isLoading
    /\ isTyping ~> ~isTyping
    /\ [][ (chatReq # Nil /\ ~chatReq.ok /\ chatReq' = Nil)
           => (messages' = messages /\ ~isLoading' /\ ~isTyping') ]_vars

\* C28 witness: two sends were accepted, one answered and one failed, and
\* both flags are down with nothing pending.
C28_Witness ==
    /\ sendCalls = 2 /\ chatReq = Nil /\ botTimers = <<>>
    /\ ~isLoading /\ ~isTyping
    /\ Len(messages) = 2 /\ Len(srvMessages) = 2

\* ===================================================== claims, SpecShadow

\* C4: whenever updateChatSession throws in saveChatToFirebase, the fallback
\* calls authService.saveChatSession once.
C4_FallbackCallsSaveChatSession ==
    [][ (\E s \in saves : SaveThrows(s)) => fallbackCalls' = fallbackCalls + 1 ]_vars

\* C12: the debounce timer is reset, not stacked.  Every step that changes
\* the transcript leaves exactly the timer armed for the new transcript
\* pending (none when the transcript is empty), whatever was pending before;
\* and the timer's firing issues one database write, which carries the
\* transcript as of the last change, and leaves no timer pending.
C12_DebounceResets ==
    [][ /\ messages' # messages
           => saveTimer' = IF messages' = <<>> THEN Nil
                           ELSE [messages |-> messages', isChatEnded |-> isChatEnded']
        /\ SaveTimerFire
           => /\ saveTimer' = Nil
              /\ \E s \in saves' \ saves :
                    /\ saves' = saves \cup {s}
                    /\ s.kind = "snapshot" /\ s.messages = messages
                    /\ s.isActive = ~saveTimer.isChatEnded ]_vars

\* A burst of two changes (the user message, then the bot message) has
\* produced one write, which carries both messages.
C12_Witness ==
    /\ saveCalls = 1 /\ Len(messages) = 2
    /\ \E s \in saves : s.messages = messages

\* C17 (as stated): at no moment are two writes to the session's database
\* record in flight together: not two snapshot saves of the debounce timer,
\* and not a snapshot save and the ended-status update of endChat.
C17_OneWriteInFlight ==
    /\ Cardinality(saves) <= 1
    /\ saves # {} => \A e \in ends : e.phase = "post"

\* C23 (as stated): the active flag of the session's database record is
\* one-way: once the record has isActive = false, no later write sets it back
\* to true.
C23_ActiveFlagOneWay ==
    [][ (dbDoc # Nil /\ ~dbDoc.isActive) => (dbDoc' # Nil /\ ~dbDoc'.isActive) ]_vars

\* C30 (as stated): once the session's record exists, no write changes its
\* createdAt, and once its endedAt is set no write changes it.
C30_TimestampsStable ==
    [][ dbDoc # Nil
        => /\ dbDoc' # Nil
           /\ dbDoc'.createdAt = dbDoc.createdAt
           /\ dbDoc.endedAt # 0 => dbDoc'.endedAt = dbDoc.endedAt ]_vars

\* ======================================================= claims, SpecCard

\* C5: choosing Skip in the feedback prompt still records the bare preference:
\* the Skip step sends a restaurant-preference request with the pending
\* polarity and no feedback text.
C5_SkipRecordsBarePreference ==
    [][ HandleFeedbackCancel =>
          /\ cardReq' # Nil
          /\ cardReq'.preference = pendingPreference
          /\ FeedbackOrNull(cardReq'.text) = NullText ]_vars

\* C6 as stated: from the moment a submission is made the indicator shows its
\* polarity, and once it has settled every submission has recorded one entry.
C6_IndicatorSetAtSubmission ==
    /\ cardReq # Nil => userPreference = cardReq.preference
    /\ cardReq = Nil => Len(feedbackDocs) = submitCalls

\* C6 as amended: the step that completes a submission whose request and
\* database write both succeeded adds exactly one entry, with the submitted
\* polarity and the trimmed text (null when blank), and sets the indicator to
\* that polarity; no other step adds an entry or changes the indicator.
C6_SavedSubmissionRecordsOnce ==
    [][ IF SubmitSaved
        THEN /\ feedbackDocs' =
                  Append(feedbackDocs,
                         [preference |-> cardReq.preference,
                          feedback |-> IF Trim(cardReq.text) = <<>> THEN NullText
                                       ELSE [null |-> FALSE, text |-> Trim(cardReq.text)]])
             /\ userPreference' = cardReq.preference
        ELSE feedbackDocs' = feedbackDocs /\ userPreference' = userPreference ]_vars

\* C6 witness: a submission with a text that trimming changes has been saved.
C6_Witness ==
    /\ cardReq = Nil /\ Len(feedbackDocs) = 1 /\ submitCalls = 1
    /\ feedbackDocs[1].feedback = [null |-> FALSE, text |-> <<"a">>]
    /\ userPreference = feedbackDocs[1].preference


\* C20: the stored feedback records are create-only: every step leaves the
\* records stored so far as they are, so the stored records only grow, and a
\* saved submission for a card that already shows a selection adds one
\* further record, after the earlier ones, and sets the displayed selection
\* to the submitted polarity.
C20_FeedbackCreateOnly ==
    [][ /\ IsPrefix(feedbackDocs, feedbackDocs')
        /\ IsPrefix(prefPosts, prefPosts')
        /\ (SubmitSaved /\ userPreference # None)
             => /\ Len(feedbackDocs') = Len(feedbackDocs) + 1
                /\ feedbackDocs'[Len(feedbackDocs')].preference = cardReq.preference
                /\ userPreference' = cardReq.preference ]_vars

\* C20 witness: a second submission, of the other polarity, has been saved
\* after the first; both records are stored and the card shows the second.
C20_Witness ==
    /\ Len(feedbackDocs) = 2
    /\ feedbackDocs[1].preference # feedbackDocs[2].preference
    /\ userPreference = feedbackDocs[2].preference
    /\ cardReq = Nil


\* ============================================================ claims, App

\* C7 (as stated): whenever a handleLogout call completes, whether the
\* sign-out succeeded or threw, the user account, the user profile, the
\* session id and the selected history session are null and the application
\* state is the gate.
C7_LogoutUnconditional ==
    [][ (\E l \in logouts : LogoutReturned(l))
        => /\ userData' = Nil /\ userProfile' = Nil /\ sessionId' = Nil
           /\ selectedSession' = Nil
           /\ appState' = "auth" ]_vars

\* C8 (as stated): when a step of a running login or registration attempt
\* fails, the application state is the gate and an error string is set: the
\* attempt has not moved the application to the chat.
C8_FailedAttemptStaysAtGate ==
    [][ (attempt' = "failed" /\ (attempt # "failed" \/ authFlows' # authFlows))
        => (appState' = "auth" /\ errors' # {}) ]_vars


\* C13 (as stated): startup always resolves.  Once the identity check has
\* run to its end (the notification of onAuthStateChanged has been delivered
\* and the read of the user record it started has settled), the application
\* has left the loading state, for every outcome of the check.
C13_StartupResolves ==
    (authEvents = <<>> /\ cbReads = <<>>) => appState # "loading"

\* C14 (as stated): on the login path the stored location is reused.  When a
\* login that obtained the user record and a session id hands its profile to
\* the application, the profile's location is the location stored in the
\* user's record.
C14_LoginReusesStoredLocation ==
    [][ \A f \in authFlows :
          ( /\ f.kind = "login" /\ f.phase = "session" /\ f.out = "ok"
            /\ SessionDone(f) )
          => userProfile'.location = Loc(f.data.currentLocation) ]_vars

\* C15: register/login round trip.  Whenever a login, made after a
\* registration that succeeded, has returned the user's account, the name and
\* the age of the account are the registered ones and its default location
\* is the location submitted at registration, and so is its current
\* location, the user not having changed it in between.
C15_RegisterLoginRoundTrip ==
    \A f \in authFlows :
        ( /\ registered # Nil
          /\ f.kind = "login" /\ f.phase = "session" )
        => /\ f.data.name = registered.name
           /\ f.data.age = registered.age
           /\ f.data.defaultLocation = registered.location
           /\ ~registered.relocated => f.data.currentLocation = registered.location

\* A login has returned the account of a user registered under another
\* location than the one the stored accounts of the initial states have.
C15_Witness ==
    /\ registered # Nil /\ registered.location = <<"g">> /\ ~registered.relocated
    /\ \E f \in authFlows :
          /\ f.kind = "login" /\ f.phase = "session"
          /\ f.data.currentLocation = <<"g">>

\* C22 (as stated): the application state changes only from loading to the
\* gate or to the chat, from the gate to the chat, between the chat and the
\* history, and from any state to the gate; and it goes from the gate to the
\* chat only in the step in which the authentication attempt succeeds.
C22_AppStateTransitions ==
    [][ appState' # appState
        => /\ << appState, appState' >> \in
                 { << "loading", "auth" >>, << "loading", "chat" >>,
                   << "auth", "chat" >>,
                   << "chat", "history" >>, << "history", "chat" >>,
                   << "chat", "auth" >>, << "history", "auth" >> }
           /\ (appState = "auth" /\ appState' = "chat") => attempt' = "ok" ]_vars

\* C24 (as stated): on the register path the account is created only with a
\* location that the reverse lookup of the device's position or the geocoding
\* lookup of the typed text has found; when the position cannot be read, or
\* the lookup fails or finds nothing, no account is created and the location
\* error is set.
C24_AccountOnlyAfterLocation ==
    [][ \A f \in authFlows :
          (f.phase = "locate" /\ LocationResolved(f))
          => /\ (~fbAccount /\ fbAccount') => f.location \in { <<"g">>, <<"s">> }
             /\ f.out # "ok" => (fbAccount' = fbAccount /\ "location" \in errors') ]_vars

\* C26 (as stated): whenever the application state is the chat, a user
\* profile, a session id and a user account are all present.
C26_ChatHasProfileSessionAccount ==
    appState = "chat"
    => /\ userProfile # Nil
       /\ userData # Nil
       /\ sessionId # Nil /\ sessionId # Undefined

\* C29 (as stated): registration is all-or-nothing.  When a register attempt
\* ends with success, the identity and its user record both exist; when it
\* ends with a failure at a step after the identity was created (profile
\* update, user-record write, session creation), no identity is left behind.
C29_RegistrationAllOrNothing ==
    [][ \A f \in authFlows :
          ( /\ f.kind = "register"
            /\ \A g \in authFlows' : g.id # f.id )
          => /\ attempt' = "ok" => (fbAccount' /\ userDoc' # Nil)
             /\ (attempt' = "failed" /\ f.phase \in {"profile", "setDoc", "session"})
                  => ~fbAccount' ]_vars

\* ======================================================= claims, SpecForm

\* C16: form validation blocks submission.  A submission proceeds (to the
\* sign-in call in login mode, to location acquisition in register mode) only
\* if the email matches the address pattern and the password has at least 6
\* characters and, in register mode, the name is not blank and the age is
\* between 13 and 120.  A submission that does not proceed makes no external
\* call and sets an error for each failing field, and for no field that the
\* mode does not check.
C16_ValidationBlocksSubmission ==
    [][ HandleAuthSubmit =>
        LET proceeds == attempt' = "running"
            register == authMode = "register"
            failing ==
                { f \in {"email"} : ~MatchesEmail(formData.email) }
                \cup { f \in {"password"} : Len(formData.password) < 6 }
                \cup { f \in {"name"} : register /\ Trim(formData.name) = <<>> }
                \cup { f \in {"age"} : register /\ ~(13 <= formData.age /\ formData.age <= 120) }
        IN  /\ proceeds => failing = {}
            /\ proceeds => IF register THEN showLocationModal' /\ authFlows' = authFlows
                                        ELSE \E f \in authFlows' \ authFlows :
                                                 f.phase = "signIn"
            /\ ~proceeds =>
                 /\ errors' # {} /\ failing \subseteq errors'
                 /\ errors' \subseteq (IF register THEN {"email", "password", "name", "age"}
                                         ELSE {"email", "password"})
                 /\ authFlows' = authFlows /\ showLocationModal' = showLocationModal
                 /\ UNCHANGED << fbAccount, fbUser, userDoc, authEvents, sessionsCreated >>
      ]_vars

\* A register-mode submission was blocked by the age alone, one above the
\* upper limit.
C16_Witness ==
    /\ authMode = "register" /\ formData.age = 121
    /\ errors = {"age"} /\ ~showLocationModal /\ attempt = None

\* ======================================================== claims, SpecNav

\* C11 (as stated): the final state wins.  When nothing is left that could
\* write the session's record (no debounce timer pending, no save in flight,
\* no response or typing timer that could still change a rendered
\* transcript), a transcript that is not empty has been written to the
\* database under the session id, also after the user has left the chat view.
C11_FinalStateWins ==
    ( /\ saveTimer = Nil /\ saves = {}
      /\ ChatInterfaceMounted => (chatReq = Nil /\ botTimers = <<>> /\ loads = {})
      /\ messages # <<>> )
    => (dbDoc # Nil /\ dbDoc.messages = messages)

\* ===================================================== claims, SpecNewChat

\* C18 (as stated): when the fetch of a session's transcript fails, the
\* transcript shown for that session is empty, also when the session id
\* changed through New Chat while the chat view held the messages of the
\* previous session: once the failed fetch of the new session has returned,
\* with nothing sent in the new session and nothing else pending, no message
\* is shown.
C18_FailedLoadShowsEmpty ==
    [][ \A l \in loads :
            ( /\ l.origin = "newchat" /\ ~l.ok
              /\ LoadRespond(l)
              /\ loads' = {} /\ chatReq = Nil /\ botTimers = <<>>
              /\ srvMessages = <<>> )
            => messages' = <<>> ]_vars

\* C27 (as stated): no cross-session contamination.  Every message of the
\* transcript shown for the current session, and every message of the
\* snapshot stored under its id, is a message of that session, that is, one
\* the backend holds in the session's transcript.
C27_NoCrossSession ==
    LET OfSession(msg) == \E j \in 1..Len(srvMessages) : srvMessages[j] = msg
    IN  /\ \A i \in 1..Len(messages) : OfSession(messages[i])
        /\ dbDoc # Nil => \A i \in 1..Len(dbDoc.messages) : OfSession(dbDoc.messages[i])

\* ====================================================== claims, SpecPrompt

\* C21: the feedback text held by the prompt never exceeds 500 characters,
\* and neither does the text of a submission under way, of a preference
\* posted to the chat API or of a feedback record stored in the database.
C21_FeedbackAtMost500 ==
    /\ Len(feedbackText) <= 500
    /\ cardReq # Nil => Len(cardReq.text) <= 500
    /\ \A i \in 1..Len(prefPosts) : Len(prefPosts[i].feedback.text) <= 500
    /\ \A i \in 1..Len(feedbackDocs) : Len(feedbackDocs[i].feedback.text) <= 500

\* C21 witness: a submission is under way whose text has 500 characters, the
\* boundary having cut short what the user pasted after a short text.
C21_Witness ==
    /\ cardReq # Nil
    /\ cardReq.text = <<" ", "a">> \o Filler(498)
    /\ Len(cardReq.text) = 500

\* ==================================================== claims, SpecChatCard

\* C25 (as stated): for an authenticated user in the chat view, a click on
\* like or dislike on a card under a bot message opens the feedback prompt
\* with that polarity pending; and a card without a user id submits nothing
\* to the chat API or the database.
C25_PreferenceOpensPrompt ==
    [][ /\ \A p \in Preferences :
              (ChatRendered /\ CardRendered /\ HandlePreference(p))
              => (showFeedbackModal' /\ pendingPreference' = p)
        /\ ~cardUid => (prefPosts' = prefPosts /\ feedbackDocs' = feedbackDocs) ]_vars

====
